---- MODULE Spec2Model ----
(***************************************************************************)
(* State-machine model of the import / snapshot reconciliation pipeline of *)
(* cielo_azure_billing: CostCsvImporter.import_file (services.py),         *)
(* BillingBlobSource.process_import_run / fetch_and_import (models.py),    *)
(* the import_cost_csv command, the store's unique constraints and the     *)
(* latest-snapshot resolvers of utils.py.                                  *)
(*                                                                         *)
(* Python strings are tuples of one-character strings; an optional value   *)
(* (a dict.get result, a nullable column) is None or Some(v).              *)
(***************************************************************************)
EXTENDS Integers, Sequences, FiniteSets, TLC

\* ------------------------------------------------------------------ bounds
MaxSnapshots == 2
MaxRows == 2
MaxClock == 1

\* ------------------------------------------------------- optional values
None == [isNone |-> TRUE]
Some(v) == [isNone |-> FALSE, val |-> v]
\* Python truthiness of an optional string: None and '' are falsy
Truthy(v) == (~v.isNone) /\ Len(v.val) > 0

\* ------------------------------------------------------- generic helpers
Range(seq) == {seq[i] : i \in 1..Len(seq)}
Max(S) == CHOOSE x \in S : \A y \in S : y <= x

\* ------------------------------------------------------- string helpers
RECURSIVE rstrip(_, _)
rstrip(s, ch) ==
    IF Len(s) > 0 /\ s[Len(s)] = ch THEN rstrip(SubSeq(s, 1, Len(s) - 1), ch) ELSE s

RECURSIVE lstrip(_, _)
lstrip(s, ch) ==
    IF Len(s) > 0 /\ s[1] = ch THEN lstrip(SubSeq(s, 2, Len(s)), ch) ELSE s

\* str.strip() on the alphabet of the model: the only whitespace is ' '
strip(s) == lstrip(rstrip(s, " "), " ")

LowerChar(c) ==
    CASE c = "M" -> "m"
      [] c = "R" -> "r"
      [] c = "G" -> "g"
      [] OTHER -> c

lower(s) == [i \in 1..Len(s) |-> LowerChar(s[i])]

\* str.split(sep): the list of the pieces between separators (never empty)
RECURSIVE split(_, _)
split(s, sep) ==
    IF \E i \in 1..Len(s) : s[i] = sep
    THEN LET i == CHOOSE k \in 1..Len(s) :
                     s[k] = sep /\ \A j \in 1..(k - 1) : s[j] # sep
         IN <<SubSeq(s, 1, i - 1)>> \o split(SubSeq(s, i + 1, Len(s)), sep)
    ELSE <<s>>

Digits == {"0", "1", "2", "3", "4", "5", "6", "7", "8", "9"}
DigitVal(c) ==
    CASE c = "0" -> 0 [] c = "1" -> 1 [] c = "2" -> 2 [] c = "3" -> 3
      [] c = "4" -> 4 [] c = "5" -> 5 [] c = "6" -> 6 [] c = "7" -> 7
      [] c = "8" -> 8 [] c = "9" -> 9

AllDigits(s) == Len(s) > 0 /\ \A i \in 1..Len(s) : s[i] \in Digits

RECURSIVE IntOf(_)
IntOf(s) == IF Len(s) = 0 THEN 0
            ELSE 10 * IntOf(SubSeq(s, 1, Len(s) - 1)) + DigitVal(s[Len(s)])

\* ----------------------------------------------------------------- dates
\* a date object is the integer yyyymmdd
MkDate(y, m, d) == y * 10000 + m * 100 + d

IsLeap(y) == (y % 4 = 0 /\ y % 100 # 0) \/ y % 400 = 0

DaysInMonth(y, m) ==
    IF m = 2 THEN (IF IsLeap(y) THEN 29 ELSE 28)
    ELSE IF m \in {4, 6, 9, 11} THEN 30 ELSE 31

\* datetime.strptime(s, '%m/%d/%Y').date(); None stands for ValueError
strptime_mdy(s) ==
    LET parts == split(s, "/") IN
    IF Len(parts) # 3 THEN None
    ELSE LET ms == parts[1]
             ds == parts[2]
             ys == parts[3]
         IN IF ~(AllDigits(ms) /\ Len(ms) <= 2 /\ AllDigits(ds) /\ Len(ds) <= 2
                 /\ AllDigits(ys) /\ Len(ys) = 4)
            THEN None
            ELSE LET m == IntOf(ms)
                     d == IntOf(ds)
                     y == IntOf(ys)
                 IN IF m \in 1..12 /\ y >= 1 /\ d >= 1 /\ d <= DaysInMonth(y, m)
                    THEN Some(MkDate(y, m, d))
                    ELSE None

parse_date(date_str) ==
    IF Truthy(date_str) THEN strptime_mdy(date_str.val) ELSE None

\* Decimal(value): None stands for the conversion error; amounts of the
\* model are whole numbers
to_decimal(s) == IF AllDigits(s) THEN Some(IntOf(s)) ELSE None

\* `row.get(k) or 0` handed to a DecimalField
decimal_or_zero(v) == IF Truthy(v) THEN to_decimal(v.val) ELSE Some(0)

\* services.py: resource_name_val
resource_name_of(resource_id_val) ==
    IF Truthy(resource_id_val)
    THEN LET segs == split(rstrip(resource_id_val.val, "/"), "/")
         IN Some(segs[Len(segs)])
    ELSE None

\* services.py: rg_val
rg_val_of(rg_raw) ==
    IF Truthy(rg_raw) THEN Some(lower(strip(rg_raw.val))) ELSE None


\* ------------------------------------------------- configuration, inputs
Sources == {"s1", "s2"}
\* BillingBlobSource.Meta.ordering = ["name"]
SourceOrder == <<"s1", "s2">>

D1 == MkDate(2024, 1, 1)
D2 == MkDate(2024, 1, 2)
QueryDates == {D1, D2}

RUN1 == <<"run", 1>>
RUN2 == <<"run", 2>>
RUN3 == <<"run", 3>>

\* the manifests that get_manifests lists for a source (blob storage content)
ManifestsOf(s) ==
    IF s = "s1"
    THEN << [run_id |-> Some(RUN1), report_date |-> Some(D1)],
            [run_id |-> Some(RUN2), report_date |-> Some(D1)] >>
    ELSE << [run_id |-> Some(RUN3), report_date |-> Some(D2)] >>

\* arguments of the import_cost_csv command: what the manifest file holds
\* and the source that --source-name resolves to
AdhocInputs ==
    { [run_id |-> None, report_date |-> None, source |-> None],
      [run_id |-> None, report_date |-> Some(D1), source |-> Some("s2")] }

T1 == <<"t", "1">>
T2 == <<"t", "2">>
SUB1 == <<"s", "1">>
SUB2 == <<"s", "2">>
RID1 == <<"/", "r", "1">>
RID2 == <<"/", "r", "2", "/">>
M1 == <<"m", "1">>
EMPTY == <<>>
S_0101 == <<"0", "1", "/", "0", "1", "/", "2", "0", "2", "4">>
S_0102 == <<"0", "1", "/", "0", "2", "/", "2", "0", "2", "4">>
S_0230 == <<"0", "2", "/", "3", "0", "/", "2", "0", "2", "4">>
S_ISO == <<"2", "0", "2", "4", "-", "0", "1", "-", "0", "1">>
S_ISO2 == <<"2", "0", "2", "4", "-", "0", "1", "-", "0", "2">>
RID3 == <<"r", "3">>
RID4 == <<"/", "a", "/", "r", "4">>
SLASH == <<"/">>

BaseRow ==
    [ customerTenantId |-> Some(T1),
      SubscriptionId |-> Some(SUB1),
      subscriptionName |-> Some(<<"A">>),
      ResourceId |-> Some(RID1),
      resourceGroupName |-> Some(<<" ", "M", "y", "R", "G", " ">>),
      meterId |-> Some(M1),
      serviceFamily |-> Some(<<"f">>),
      date |-> Some(S_0101),
      costInUsd |-> Some(<<"2">>),
      quantity |-> Some(EMPTY),
      unitPrice |-> None,
      costInBillingCurrency |-> None,
      PayGPrice |-> Some(EMPTY) ]

\* the CSV rows of the files the fetch pipeline imports, by row kind
PipelineRows ==
    { BaseRow,
      \* same unique tuple as BaseRow once the blank quantity became 0
      [BaseRow EXCEPT !.costInUsd = Some(<<"5">>), !.quantity = Some(<<"0">>)],
      \* another subscription and resource
      [BaseRow EXCEPT !.SubscriptionId = Some(SUB2), !.subscriptionName = Some(<<"B">>),
                      !.ResourceId = Some(RID2), !.resourceGroupName = Some(<<"r", "g">>),
                      !.costInUsd = Some(<<"1">>)],
      \* renamed subscription, date in ISO format
      [BaseRow EXCEPT !.subscriptionName = Some(<<"B">>), !.date = Some(S_ISO)] }

\* the CSV rows of the files the row-level checks import
RowSet ==
    PipelineRows \cup {
      \* new tenant, SubscriptionId column absent
      [BaseRow EXCEPT !.customerTenantId = Some(T2), !.SubscriptionId = None],
      \* next day, blank descriptive fields
      [BaseRow EXCEPT !.date = Some(S_0102), !.subscriptionName = Some(EMPTY),
                      !.resourceGroupName = Some(EMPTY), !.serviceFamily = Some(EMPTY)],
      \* well-formed string that is no calendar date
      [BaseRow EXCEPT !.date = Some(S_0230)],
      \* amount that is no number
      [BaseRow EXCEPT !.costInUsd = Some(<<"x">>)] }

\* the CSV rows of the files the field-level checks import
FieldRows ==
    { BaseRow,
      \* the same keys with other descriptive values, next day
      [BaseRow EXCEPT !.date = Some(S_0102), !.subscriptionName = Some(<<"B">>),
                      !.resourceGroupName = Some(<<"r", "g">>),
                      !.serviceFamily = Some(<<"g">>)],
      \* the same keys with blank descriptive values
      [BaseRow EXCEPT !.quantity = Some(<<"1">>), !.subscriptionName = Some(EMPTY),
                      !.resourceGroupName = Some(<<" ">>), !.serviceFamily = Some(EMPTY)],
      \* a resource id of slashes only, a resource group of blanks only
      [BaseRow EXCEPT !.ResourceId = Some(SLASH), !.resourceGroupName = Some(<<" ">>)],
      \* a resource id without '/', no resource group column, amounts given
      [BaseRow EXCEPT !.ResourceId = Some(RID3), !.resourceGroupName = None,
                      !.costInUsd = Some(EMPTY), !.unitPrice = Some(<<"4">>),
                      !.costInBillingCurrency = Some(<<"3">>),
                      !.PayGPrice = Some(<<"5">>)],
      \* a resource id of two segments, every amount absent
      [BaseRow EXCEPT !.ResourceId = Some(RID4), !.costInUsd = None,
                      !.quantity = None, !.PayGPrice = None],
      \* an empty resource id
      [BaseRow EXCEPT !.ResourceId = Some(EMPTY), !.resourceGroupName = Some(EMPTY)],
      \* new entities and another name on a row whose date is not MM/DD/YYYY
      [BaseRow EXCEPT !.date = Some(S_ISO), !.customerTenantId = Some(T2),
                      !.SubscriptionId = Some(SUB2), !.subscriptionName = Some(<<"B">>),
                      !.ResourceId = Some(RID2), !.meterId = Some(<<"m", "2">>)],
      \* known keys with other descriptive values on a row without date
      [BaseRow EXCEPT !.date = None, !.subscriptionName = Some(<<"C">>),
                      !.resourceGroupName = Some(<<"r", "g">>),
                      !.serviceFamily = Some(<<"h">>)] }

\* a store error while a row is processed, or none
RowFaults == {"none", "store"}

Procs == {"p1", "p2"}

\* the is_active flags the sources can be configured with
ActiveConfigs ==
    { [s \in Sources |-> TRUE],
      [s \in Sources |-> s = "s1"] }

\* the query parameters of the API requests: `date`, absent, ISO or not ISO
DateParams == {None, Some(S_ISO), Some(S_ISO2), Some(S_0101)}

\* `resource_group` of the resource-group totals, absent or given
ResourceGroupParams == {None, Some(<<"m", "y", "r", "g">>)}

\* the cache keys of BaseSummaryView and ResourceGroupTotalsView: the view,
\* its resource_group parameter and the date string of the request
CacheKeys ==
    {<<"summary", None, d>> : d \in DateParams}
        \cup {<<"resource-group-totals", rg, d>> : rg \in ResourceGroupParams, d \in DateParams}

NoResponse == [view |-> "none", status |-> 0]

\* `month` of the available-report-dates requests: absent, a month, a month
\* number out of range, not YYYY-MM
MonthParams ==
    { None,
      Some(<<"2", "0", "2", "4", "-", "0", "1">>),
      Some(<<"2", "0", "2", "4", "-", "0", "2">>),
      Some(<<"2", "0", "2", "4", "-", "1", "3">>),
      Some(<<"0", "1", "/", "2", "0", "2", "4">>) }

IN_PROGRESS == "in_progress"
COMPLETE == "complete"
FAILED == "failed"

\* ------------------------------------------------------------------ state
VARIABLES
    is_active,      \* BillingBlobSource.is_active, by source name
    now,            \* the wall clock
    snapshots,      \* table CostReportSnapshot, primary key = index
    costentries,    \* table CostEntry
    customers,      \* table Customer
    subscriptions,  \* table Subscription
    resources,      \* table Resource
    meters,         \* table Meter
    proc,           \* the importer processes: command, position, locals
    cache,          \* the cache of the summary views, by cache key
    resp            \* the response to the last API request

store == <<snapshots, costentries, customers, subscriptions, resources, meters>>
entities == <<customers, subscriptions, resources, meters>>
web == <<cache, resp>>
vars == <<is_active, now, snapshots, costentries, customers, subscriptions,
          resources, meters, proc, cache, resp>>

IdleProc ==
    [ pc |-> "idle", cmd |-> "none", source |-> None, overwrite |-> FALSE,
      mi |-> 0, run_id |-> None, report_date |-> None, existed |-> FALSE,
      ts |-> 0, snap |-> 0, nrows |-> 0, idx |-> 0, count |-> 0,
      results |-> <<>>, outcome |-> "none", writes |-> {},
      raised |-> FALSE, returned |-> None,
      row |-> None, stage |-> 0, pks |-> <<>> ]

Init ==
    /\ is_active \in ActiveConfigs
    /\ now = 0
    /\ snapshots = <<>>
    /\ costentries = <<>>
    /\ customers = <<>>
    /\ subscriptions = <<>>
    /\ resources = <<>>
    /\ meters = <<>>
    /\ proc = [p \in Procs |-> IdleProc]
    /\ cache = [k \in CacheKeys |-> None]
    /\ resp = NoResponse


\* ------------------------------------------------- store: unique lookups
\* QuerySet.get(key=k): the primary keys of the rows that match
CustomerPks(tbl, k) == {i \in 1..Len(tbl) : tbl[i].tenant_id = k}
SubscriptionPks(tbl, k) == {i \in 1..Len(tbl) : tbl[i].subscription_id = k}
ResourcePks(tbl, k) == {i \in 1..Len(tbl) : tbl[i].resource_id = k}
MeterPks(tbl, k) == {i \in 1..Len(tbl) : tbl[i].meter_id = k}

\* the result of a get_or_create: the table afterwards, the row's primary
\* key, the created flag, or raised (IntegrityError, MultipleObjectsReturned)
GocRaise(tbl) == [raised |-> TRUE, tbl |-> tbl, pk |-> 0, created |-> FALSE]
GocGot(tbl, pks) ==
    IF Cardinality(pks) = 1
    THEN [raised |-> FALSE, tbl |-> tbl, pk |-> CHOOSE i \in pks : TRUE, created |-> FALSE]
    ELSE GocRaise(tbl)
GocCreated(tbl, rec) ==
    [raised |-> FALSE, tbl |-> Append(tbl, rec), pk |-> Len(tbl) + 1, created |-> TRUE]

\* a plain create where the code looks the customer up first
customer_always_create(tbl, tenant_id) ==
    IF tenant_id.isNone THEN GocRaise(tbl)
    ELSE GocCreated(tbl, [tenant_id |-> tenant_id.val])

\* Customer.objects.get_or_create(tenant_id=...); tenant_id is NOT NULL
customer_get_or_create(tbl, tenant_id) ==
    IF tenant_id.isNone THEN GocRaise(tbl)
    ELSE IF CustomerPks(tbl, tenant_id.val) # {}
         THEN GocGot(tbl, CustomerPks(tbl, tenant_id.val))
         ELSE GocCreated(tbl, [tenant_id |-> tenant_id.val])

\* Subscription.objects.get_or_create(subscription_id=..., defaults=...);
\* subscription_id and name are NOT NULL
subscription_get_or_create(tbl, subscription_id, name, customer) ==
    IF subscription_id.isNone THEN GocRaise(tbl)
    ELSE IF SubscriptionPks(tbl, subscription_id.val) # {}
         THEN GocGot(tbl, SubscriptionPks(tbl, subscription_id.val))
         ELSE IF name.isNone THEN GocRaise(tbl)
              ELSE GocCreated(tbl, [subscription_id |-> subscription_id.val,
                                    name |-> name, customer |-> customer])

\* Resource.objects.get_or_create(resource_id=..., defaults=...)
resource_get_or_create(tbl, resource_id, resource_name, resource_group) ==
    IF resource_id.isNone THEN GocRaise(tbl)
    ELSE IF ResourcePks(tbl, resource_id.val) # {}
         THEN GocGot(tbl, ResourcePks(tbl, resource_id.val))
         ELSE GocCreated(tbl, [resource_id |-> resource_id.val,
                               resource_name |-> resource_name,
                               resource_group |-> resource_group])

\* Meter.objects.get_or_create(meter_id=..., defaults=...)
meter_get_or_create(tbl, meter_id, service_family) ==
    IF meter_id.isNone THEN GocRaise(tbl)
    ELSE IF MeterPks(tbl, meter_id.val) # {}
         THEN GocGot(tbl, MeterPks(tbl, meter_id.val))
         ELSE GocCreated(tbl, [meter_id |-> meter_id.val,
                               service_family |-> service_family])

\* the update rules of import_file for a row that was found, not created
subscription_needs_update(created, stored_name, new_name) ==
    (~created) /\ Truthy(new_name) /\ stored_name # new_name

resource_name_needs_update(stored_name, resource_name_val) ==
    Truthy(resource_name_val) /\ ~Truthy(stored_name)

\* a rule that only fills in a resource group that is not stored yet
resource_group_backfill_only(stored_group, rg_val) ==
    Truthy(rg_val) /\ ~Truthy(stored_group)

resource_group_needs_update(stored_group, rg_val) ==
    Truthy(rg_val) /\ stored_group # rg_val

meter_needs_update(created, stored_family, new_family) ==
    (~created) /\ Truthy(new_family) /\ stored_family # new_family

\* CostEntry.Meta.unique_together
UniqueKey(e) ==
    <<e.snapshot, e.date, e.subscription, e.resource, e.meter, e.quantity, e.unit_price>>

\* a store without the unique_together constraint
costentry_never_rejected(tbl, e) == FALSE

costentry_unique_violation(tbl, e) ==
    \E i \in 1..Len(tbl) : UniqueKey(tbl[i]) = UniqueKey(e)

\* a store without the unique constraint on run_id
run_id_never_rejected(tbl, run_id) == FALSE

\* CostReportSnapshot.run_id: unique=True
run_id_unique_violation(tbl, run_id) ==
    \E i \in 1..Len(tbl) : tbl[i].run_id = run_id


\* ------------------------------------------- import_file: one row of the file
\* What the body of `for row in reader` does to the store for one row, with
\* the tables as they are now: the tables afterwards, the outcome of the row
\* and the writes it made to the reference entities.
\*   outcome: "inserted"  CostEntry created, count += 1
\*            "baddate"   parse_date gave None, `continue`
\*            "duplicate" CostEntry insert rejected by unique_together
\*            "error"     any other exception caught by the row handler
RowResult(cu, su, re, me, ce, outcome, writes) ==
    [ customers |-> cu, subscriptions |-> su, resources |-> re, meters |-> me,
      costentries |-> ce, outcome |-> outcome, writes |-> writes ]

import_row(row, snapshot, fault) ==
    LET c == customer_get_or_create(customers, row.customerTenantId)
        w1 == IF c.created THEN {"create customer"} ELSE {}
    IN
    IF fault = "store" \/ c.raised
    THEN RowResult(customers, subscriptions, resources, meters, costentries, "error", {})
    ELSE
    LET s == subscription_get_or_create(subscriptions, row.SubscriptionId,
                                        row.subscriptionName, c.pk)
    IN
    IF s.raised
    THEN RowResult(c.tbl, subscriptions, resources, meters, costentries, "error", w1)
    ELSE
    LET s_upd == subscription_needs_update(s.created, s.tbl[s.pk].name, row.subscriptionName)
        subs2 == IF s_upd THEN [s.tbl EXCEPT ![s.pk].name = row.subscriptionName]
                 ELSE s.tbl
        w2 == w1 \cup (IF s.created THEN {"create subscription"} ELSE {})
                 \cup (IF s_upd THEN {"save subscription.name"} ELSE {})
        resource_name_val == resource_name_of(row.ResourceId)
        rg_val == rg_val_of(row.resourceGroupName)
        r == resource_get_or_create(resources, row.ResourceId, resource_name_val, rg_val)
    IN
    IF r.raised
    THEN RowResult(c.tbl, subs2, resources, meters, costentries, "error", w2)
    ELSE
    LET rn_upd == resource_name_needs_update(r.tbl[r.pk].resource_name, resource_name_val)
        rg_upd == resource_group_needs_update(r.tbl[r.pk].resource_group, rg_val)
        res1 == IF rn_upd THEN [r.tbl EXCEPT ![r.pk].resource_name = resource_name_val]
                ELSE r.tbl
        res2 == IF rg_upd THEN [res1 EXCEPT ![r.pk].resource_group = rg_val]
                ELSE res1
        w3 == w2 \cup (IF r.created THEN {"create resource"} ELSE {})
                 \cup (IF rn_upd THEN {"save resource.resource_name"} ELSE {})
                 \cup (IF rg_upd THEN {"save resource.resource_group"} ELSE {})
        m == meter_get_or_create(meters, row.meterId, row.serviceFamily)
    IN
    IF m.raised
    THEN RowResult(c.tbl, subs2, res2, meters, costentries, "error", w3)
    ELSE
    LET m_upd == meter_needs_update(m.created, m.tbl[m.pk].service_family, row.serviceFamily)
        met2 == IF m_upd THEN [m.tbl EXCEPT ![m.pk].service_family = row.serviceFamily]
                ELSE m.tbl
        w4 == w3 \cup (IF m.created THEN {"create meter"} ELSE {})
                 \cup (IF m_upd THEN {"save meter.service_family"} ELSE {})
        parsed_date == parse_date(row.date)
        cost == decimal_or_zero(row.costInUsd)
        qty == decimal_or_zero(row.quantity)
        price == decimal_or_zero(row.unitPrice)
        billing == decimal_or_zero(row.costInBillingCurrency)
        payg == decimal_or_zero(row.PayGPrice)
    IN
    IF parsed_date.isNone
    THEN RowResult(c.tbl, subs2, res2, met2, costentries, "baddate", w4)
    ELSE IF cost.isNone \/ qty.isNone \/ price.isNone \/ billing.isNone \/ payg.isNone
    THEN RowResult(c.tbl, subs2, res2, met2, costentries, "error", w4)
    ELSE
    LET e == [ snapshot |-> snapshot, date |-> parsed_date.val,
               subscription |-> s.pk, resource |-> r.pk, meter |-> m.pk,
               cost_in_usd |-> cost.val, quantity |-> qty.val,
               unit_price |-> price.val,
               cost_in_billing_currency |-> Some(billing.val),
               payg_price |-> Some(payg.val) ]
    IN
    IF costentry_unique_violation(costentries, e)
    THEN RowResult(c.tbl, subs2, res2, met2, costentries, "duplicate", w4)
    ELSE RowResult(c.tbl, subs2, res2, met2, Append(costentries, e), "inserted", w4)


\* ------------------------------------------------------------- operations
\* process_import_run: `CostReportSnapshot.objects.filter(run_id=run_id).exists()`
ExistsRun(run_id) ==
    (~run_id.isNone) /\ \E i \in 1..Len(snapshots) : snapshots[i].run_id = run_id.val

\* process_import_run importing whatever the store holds
ShouldSkip_never(run_id, overwrite) == FALSE

\* process_import_run: the caller's decision to skip a run
ShouldSkip(run_id, overwrite) == ExistsRun(run_id) /\ ~overwrite

\* import_file: `self.run_id or str(datetime.datetime.utcnow().timestamp())`
run_id_or_timestamp(run_id, ts) ==
    IF run_id.isNone THEN <<"ts", ts>> ELSE run_id.val

\* an exception leaves the command: fetch_and_import re-raises and the
\* command's handler reports it; the remaining manifests are not processed
\* the locals of a command that ended are gone; what it reported stays
Ended(pr) ==
    [pr EXCEPT !.pc = "idle", !.source = None, !.mi = 0, !.run_id = None,
               !.report_date = None, !.ts = 0, !.outcome = "none", !.writes = {}]

Raise(pr) == Ended([pr EXCEPT !.raised = TRUE, !.returned = None])

\* fetch_and_import: the next manifest of the loop, or the return of 'success'
NextManifest(pr) ==
    IF pr.mi < Len(ManifestsOf(pr.source.val))
    THEN [pr EXCEPT !.pc = "check", !.mi = pr.mi + 1]
    ELSE Ended([pr EXCEPT !.returned = Some("success")])

\* the wall clock advances
Tick ==
    /\ now < MaxClock
    /\ now' = now + 1
    /\ UNCHANGED <<web, is_active, store, proc>>

\* fetch_and_import_from_blob: BillingBlobSource.fetch_and_import of an active
\* source, up to the first manifest of the loop
StartFetch(p, s, overwrite) ==
    /\ proc[p].pc = "idle"
    /\ is_active[s]
    /\ proc' = [proc EXCEPT ![p] =
            IF Len(ManifestsOf(s)) = 0
            THEN [IdleProc EXCEPT !.cmd = "fetch", !.source = Some(s),
                                  !.overwrite = overwrite,
                                  !.returned = Some("no_manifests")]
            ELSE [IdleProc EXCEPT !.pc = "check", !.cmd = "fetch", !.source = Some(s),
                                  !.overwrite = overwrite, !.mi = 1]]
    /\ UNCHANGED <<web, is_active, now, store>>

\* process_import_run up to the call of import_file: the manifest is read,
\* an existing run is skipped unless overwrite is set, the CSV is downloaded
CheckRun(p) ==
    /\ proc[p].pc = "check"
    /\ LET pr == proc[p]
           m == ManifestsOf(pr.source.val)[pr.mi]
       IN proc' = [proc EXCEPT ![p] =
            IF ShouldSkip(m.run_id, pr.overwrite)
            THEN NextManifest([pr EXCEPT !.results = Append(pr.results, "skipped"),
                                         !.run_id = m.run_id,
                                         !.report_date = m.report_date,
                                         !.existed = TRUE])
            ELSE [pr EXCEPT !.pc = "create", !.run_id = m.run_id,
                            !.report_date = m.report_date,
                            !.existed = ExistsRun(m.run_id), !.ts = now,
                            !.snap = 0, !.nrows = 0, !.idx = 0, !.count = 0,
                            !.outcome = "none", !.writes = {}]]
    /\ UNCHANGED <<web, is_active, now, store>>

\* import_cost_csv: the manifest file and --source-name are read and
\* import_file is called without any check of the run
StartImportCsv(p, args) ==
    /\ proc[p].pc = "idle"
    /\ proc' = [proc EXCEPT ![p] =
            [IdleProc EXCEPT !.pc = "create", !.cmd = "adhoc", !.source = args.source,
                             !.run_id = args.run_id,
                             !.report_date = args.report_date, !.ts = now]]
    /\ UNCHANGED <<web, is_active, now, store>>

\* import_file taking over the snapshot of a run_id that exists
\* (update_or_create) where the code creates one
CreateSnapshot_reopen(p, maxrows) ==
    /\ proc[p].pc = "create"
    /\ LET pr == proc[p]
           rid == run_id_or_timestamp(pr.run_id, pr.ts)
           old == {i \in 1..Len(snapshots) : snapshots[i].run_id = rid}
       IN IF old # {}
          THEN /\ snapshots' = [snapshots EXCEPT ![Max(old)].status = IN_PROGRESS]
               /\ \E n \in 0..maxrows :
                    proc' = [proc EXCEPT ![p] =
                        [pr EXCEPT !.pc = "rows", !.snap = Max(old), !.nrows = n]]
          ELSE /\ Len(snapshots) < MaxSnapshots
               /\ snapshots' = Append(snapshots,
                        [ run_id |-> rid, report_date |-> pr.report_date,
                          source |-> pr.source, status |-> IN_PROGRESS,
                          created_at |-> pr.ts ])
               /\ \E n \in 0..maxrows :
                    proc' = [proc EXCEPT ![p] =
                        [pr EXCEPT !.pc = "rows", !.snap = Len(snapshots) + 1,
                                   !.nrows = n]]
    /\ UNCHANGED <<web, is_active, now, costentries, entities>>

\* import_file: CostReportSnapshot.objects.create(..., status=IN_PROGRESS);
\* the store rejects a second snapshot of a run_id and the error is re-raised
CreateSnapshot(p, maxrows) ==
    /\ proc[p].pc = "create"
    /\ LET pr == proc[p]
           rid == run_id_or_timestamp(pr.run_id, pr.ts)
       IN IF run_id_unique_violation(snapshots, rid)
          THEN /\ proc' = [proc EXCEPT ![p] = Raise(pr)]
               /\ UNCHANGED snapshots
          ELSE /\ Len(snapshots) < MaxSnapshots
               /\ snapshots' = Append(snapshots,
                        [ run_id |-> rid, report_date |-> pr.report_date,
                          source |-> pr.source, status |-> IN_PROGRESS,
                          created_at |-> pr.ts ])
               /\ \E n \in 0..maxrows :
                    proc' = [proc EXCEPT ![p] =
                        [pr EXCEPT !.pc = "rows", !.snap = Len(snapshots) + 1,
                                   !.nrows = n]]
    /\ UNCHANGED <<web, is_active, now, costentries, entities>>

\* one iteration without the row handler: a row that is not inserted ends
\* the import, the snapshot is saved as failed and the error re-raised
ProcessRowWith_abort(p, row, fault) ==
    /\ proc[p].pc = "rows"
    /\ proc[p].idx < proc[p].nrows
    /\ LET pr == proc[p]
            res == import_row(row, pr.snap, fault)
        IN /\ customers' = res.customers
           /\ subscriptions' = res.subscriptions
           /\ resources' = res.resources
           /\ meters' = res.meters
           /\ costentries' = res.costentries
           /\ IF res.outcome = "inserted"
              THEN /\ proc' = [proc EXCEPT ![p] =
                        [pr EXCEPT !.idx = pr.idx + 1, !.count = pr.count + 1,
                                   !.outcome = res.outcome, !.writes = res.writes]]
                   /\ UNCHANGED snapshots
              ELSE /\ proc' = [proc EXCEPT ![p] = Raise([pr EXCEPT !.idx = pr.idx + 1])]
                   /\ snapshots' = [snapshots EXCEPT ![pr.snap].status = FAILED]
    /\ UNCHANGED <<web, is_active, now>>

\* one iteration that counts every row it read, inserted or not
ProcessRowWith_countall(p, row, fault) ==
    /\ proc[p].pc = "rows"
    /\ proc[p].idx < proc[p].nrows
    /\ LET pr == proc[p]
            res == import_row(row, pr.snap, fault)
        IN /\ customers' = res.customers
           /\ subscriptions' = res.subscriptions
           /\ resources' = res.resources
           /\ meters' = res.meters
           /\ costentries' = res.costentries
           /\ proc' = [proc EXCEPT ![p] =
                [pr EXCEPT !.idx = pr.idx + 1, !.count = pr.count + 1,
                           !.outcome = res.outcome, !.writes = res.writes]]
    /\ UNCHANGED <<web, is_active, now, snapshots>>

\* import_file: one iteration of `for row in reader`
ProcessRowWith(p, row, fault) ==
    /\ proc[p].pc = "rows"
    /\ proc[p].idx < proc[p].nrows
    /\ LET pr == proc[p]
            res == import_row(row, pr.snap, fault)
        IN /\ customers' = res.customers
           /\ subscriptions' = res.subscriptions
           /\ resources' = res.resources
           /\ meters' = res.meters
           /\ costentries' = res.costentries
           /\ proc' = [proc EXCEPT ![p] =
                [pr EXCEPT !.idx = pr.idx + 1,
                           !.count = IF res.outcome = "inserted"
                                     THEN pr.count + 1 ELSE pr.count,
                           !.outcome = res.outcome,
                           !.writes = res.writes]]
    /\ UNCHANGED <<web, is_active, now, snapshots>>

ProcessRow(p, rows, faults) ==
    \E row \in rows, fault \in faults : ProcessRowWith(p, row, fault)

\* a stream error that is re-raised without the snapshot being saved as failed
StreamError_unmarked(p) ==
    /\ proc[p].pc = "rows"
    /\ proc' = [proc EXCEPT ![p] = Raise(proc[p])]
    /\ UNCHANGED <<web, is_active, now, store>>

\* import_file: open() or the reader raises; the outer handler saves the
\* snapshot as failed and re-raises
StreamError(p) ==
    /\ proc[p].pc = "rows"
    /\ snapshots' = [snapshots EXCEPT ![proc[p].snap].status = FAILED]
    /\ proc' = [proc EXCEPT ![p] = Raise(proc[p])]
    /\ UNCHANGED <<web, is_active, now, costentries, entities>>

\* import_file: the stream is exhausted; the snapshot is saved as complete
\* and the count (kept in proc[p].count) returned. process_import_run then
\* returns 'imported'; import_cost_csv prints the count.
\* When that save raises, the outer handler saves failed instead.
Finalize(p) ==
    /\ proc[p].pc = "rows"
    /\ proc[p].idx = proc[p].nrows
    /\ \E fault \in RowFaults :
        LET pr == proc[p] IN
        IF fault = "none"
        THEN /\ snapshots' = [snapshots EXCEPT ![pr.snap].status = COMPLETE]
             /\ proc' = [proc EXCEPT ![p] =
                    IF pr.cmd = "fetch"
                    THEN NextManifest([pr EXCEPT !.results = Append(pr.results, "imported"),
                                                 !.outcome = "none", !.writes = {}])
                    ELSE Ended(pr)]
        ELSE /\ snapshots' = [snapshots EXCEPT ![pr.snap].status = FAILED]
             /\ proc' = [proc EXCEPT ![p] = Raise(pr)]
    /\ UNCHANGED <<web, is_active, now, costentries, entities>>

\* one importer process at a time: the scheduled job
Next ==
    \/ Tick
    \/ \E s \in Sources, overwrite \in BOOLEAN : StartFetch("p1", s, overwrite)
    \/ CheckRun("p1")
    \/ \E args \in AdhocInputs : StartImportCsv("p1", args)
    \/ CreateSnapshot("p1", MaxRows)
    \/ ProcessRow("p1", PipelineRows, {"none"})
    \/ StreamError("p1")
    \/ Finalize("p1")

Spec == Init /\ [][Next]_vars

\* two importer processes run fetch_and_import concurrently
ConcRows == {BaseRow, [BaseRow EXCEPT !.date = Some(S_ISO)]}

NextConc ==
    \/ \E p \in Procs, s \in Sources, overwrite \in BOOLEAN : StartFetch(p, s, overwrite)
    \/ \E p \in Procs : CheckRun(p)
    \/ \E p \in Procs : CreateSnapshot(p, 1)
    \/ \E p \in Procs : ProcessRow(p, ConcRows, {"none"})
    \/ \E p \in Procs : StreamError(p)
    \/ \E p \in Procs : Finalize(p)

SpecConc == Init /\ [][NextConc]_vars

\* the scheduled job imports the runs of source s1, whose files hold rows of
\* every kind and meet store errors
NextRows ==
    \/ StartFetch("p1", "s1", FALSE)
    \/ CheckRun("p1")
    \/ CreateSnapshot("p1", MaxRows)
    \/ ProcessRow("p1", RowSet, RowFaults)
    \/ Finalize("p1")

SpecRows == Init /\ [][NextRows]_vars

\* the scheduled job imports the run of source s2, whose file holds the rows
\* of the field-level checks
NextFields ==
    \/ StartFetch("p1", "s2", FALSE)
    \/ CheckRun("p1")
    \/ CreateSnapshot("p1", MaxRows)
    \/ ProcessRow("p1", FieldRows, {"none"})
    \/ Finalize("p1")

SpecFields == Init /\ [][NextFields]_vars

\* ------------------------------- the row body, one store statement at a time
\* Two importers that resolve the same key race between the lookup and the
\* insert of get_or_create. stage: 1 Customer, 2 Subscription, 3 Resource,
\* 4 Meter.
goc_key(row, stage) ==
    CASE stage = 1 -> row.customerTenantId
      [] stage = 2 -> row.SubscriptionId
      [] stage = 3 -> row.ResourceId
      [] stage = 4 -> row.meterId

goc_table(stage) ==
    CASE stage = 1 -> customers
      [] stage = 2 -> subscriptions
      [] stage = 3 -> resources
      [] stage = 4 -> meters

\* Model.objects.get(key=...): the primary keys that match
goc_pks(stage, key) ==
    IF key.isNone THEN {}
    ELSE CASE stage = 1 -> CustomerPks(customers, key.val)
           [] stage = 2 -> SubscriptionPks(subscriptions, key.val)
           [] stage = 3 -> ResourcePks(resources, key.val)
           [] stage = 4 -> MeterPks(meters, key.val)

\* the row get_or_create inserts: the key and the defaults
goc_record(row, stage, pks) ==
    CASE stage = 1 -> [tenant_id |-> row.customerTenantId.val]
      [] stage = 2 -> [subscription_id |-> row.SubscriptionId.val,
                       name |-> row.subscriptionName, customer |-> pks[1]]
      [] stage = 3 -> [resource_id |-> row.ResourceId.val,
                       resource_name |-> resource_name_of(row.ResourceId),
                       resource_group |-> rg_val_of(row.resourceGroupName)]
      [] stage = 4 -> [meter_id |-> row.meterId.val,
                       service_family |-> row.serviceFamily]

\* the insert breaks a NOT NULL constraint: the key, Subscription.name
goc_not_null_violation(row, stage) ==
    goc_key(row, stage).isNone \/ (stage = 2 /\ row.subscriptionName.isNone)

\* the update rules of import_file on the row get_or_create returned
goc_updated(tbl, row, stage, pk, created) ==
    CASE stage = 1 -> tbl
      [] stage = 2 ->
            IF subscription_needs_update(created, tbl[pk].name, row.subscriptionName)
            THEN [tbl EXCEPT ![pk].name = row.subscriptionName] ELSE tbl
      [] stage = 3 ->
            LET resource_name_val == resource_name_of(row.ResourceId)
                rg_val == rg_val_of(row.resourceGroupName)
                res1 == IF resource_name_needs_update(tbl[pk].resource_name, resource_name_val)
                        THEN [tbl EXCEPT ![pk].resource_name = resource_name_val] ELSE tbl
            IN IF resource_group_needs_update(tbl[pk].resource_group, rg_val)
               THEN [res1 EXCEPT ![pk].resource_group = rg_val] ELSE res1
      [] stage = 4 ->
            IF meter_needs_update(created, tbl[pk].service_family, row.serviceFamily)
            THEN [tbl EXCEPT ![pk].service_family = row.serviceFamily] ELSE tbl

created_note(stage) ==
    CASE stage = 1 -> "create customer" [] stage = 2 -> "create subscription"
      [] stage = 3 -> "create resource" [] stage = 4 -> "create meter"

\* the table of the stage becomes tbl, the other entity tables stay
SetTable(stage, tbl) ==
    /\ customers' = IF stage = 1 THEN tbl ELSE customers
    /\ subscriptions' = IF stage = 2 THEN tbl ELSE subscriptions
    /\ resources' = IF stage = 3 THEN tbl ELSE resources
    /\ meters' = IF stage = 4 THEN tbl ELSE meters

\* get_or_create returned the row pk: on to the next get_or_create, or to the
\* CostEntry
goc_returned(pr, pk, notes) ==
    [pr EXCEPT !.pks = Append(pr.pks, pk), !.writes = pr.writes \cup notes,
               !.stage = IF pr.stage < 4 THEN pr.stage + 1 ELSE 0,
               !.pc = IF pr.stage < 4 THEN "goc_get" ELSE "entry"]

\* the row is over: `count += 1`, or a `continue` of the row handler
row_done(pr, outcome) ==
    [pr EXCEPT !.pc = "rows", !.idx = pr.idx + 1, !.outcome = outcome,
               !.count = IF outcome = "inserted" THEN pr.count + 1 ELSE pr.count,
               !.row = None, !.stage = 0, !.pks = <<>>]

\* `for row in reader`: the next row of the file
BeginRow(p, rows) ==
    /\ proc[p].pc = "rows"
    /\ proc[p].idx < proc[p].nrows
    /\ \E row \in rows :
          proc' = [proc EXCEPT ![p] =
              [proc[p] EXCEPT !.pc = "goc_get", !.row = Some(row), !.stage = 1,
                              !.pks = <<>>, !.writes = {}, !.outcome = "none"]]
    /\ UNCHANGED <<web, is_active, now, store>>

\* get_or_create: the lookup. A row that is found is returned and the update
\* rules applied; MultipleObjectsReturned goes to the row handler
GocGet(p) ==
    /\ proc[p].pc = "goc_get"
    /\ LET pr == proc[p]
           row == pr.row.val
           found == goc_pks(pr.stage, goc_key(row, pr.stage))
       IN IF found = {}
          THEN /\ proc' = [proc EXCEPT ![p] = [pr EXCEPT !.pc = "goc_create"]]
               /\ UNCHANGED entities
          ELSE IF Cardinality(found) > 1
          THEN /\ proc' = [proc EXCEPT ![p] = row_done(pr, "error")]
               /\ UNCHANGED entities
          ELSE LET pk == CHOOSE i \in found : TRUE
               IN /\ SetTable(pr.stage,
                              goc_updated(goc_table(pr.stage), row, pr.stage, pk, FALSE))
                  /\ proc' = [proc EXCEPT ![p] = goc_returned(pr, pk, {})]
    /\ UNCHANGED <<web, is_active, now, snapshots, costentries>>

\* the insert of a store without unique constraints on the keys
GocCreate_unconstrained(p) ==
    /\ proc[p].pc = "goc_create"
    /\ LET pr == proc[p]
           row == pr.row.val
       IN IF goc_not_null_violation(row, pr.stage)
          THEN /\ proc' = [proc EXCEPT ![p] = [pr EXCEPT !.pc = "goc_refetch"]]
               /\ UNCHANGED entities
          ELSE LET tbl == Append(goc_table(pr.stage), goc_record(row, pr.stage, pr.pks))
               IN /\ SetTable(pr.stage, goc_updated(tbl, row, pr.stage, Len(tbl), TRUE))
                  /\ proc' = [proc EXCEPT ![p] =
                        goc_returned(pr, Len(tbl), {created_note(pr.stage)})]
    /\ UNCHANGED <<web, is_active, now, snapshots, costentries>>

\* get_or_create: the insert after a lookup that found nothing. The store
\* rejects a key that another process inserted meanwhile (unique=True) and a
\* null in a NOT NULL column; get_or_create catches the IntegrityError
GocCreate(p) ==
    /\ proc[p].pc = "goc_create"
    /\ LET pr == proc[p]
           row == pr.row.val
       IN IF \/ goc_not_null_violation(row, pr.stage)
             \/ goc_pks(pr.stage, goc_key(row, pr.stage)) # {}
          THEN /\ proc' = [proc EXCEPT ![p] = [pr EXCEPT !.pc = "goc_refetch"]]
               /\ UNCHANGED entities
          ELSE LET tbl == Append(goc_table(pr.stage), goc_record(row, pr.stage, pr.pks))
               IN /\ SetTable(pr.stage, goc_updated(tbl, row, pr.stage, Len(tbl), TRUE))
                  /\ proc' = [proc EXCEPT ![p] =
                        goc_returned(pr, Len(tbl), {created_note(pr.stage)})]
    /\ UNCHANGED <<web, is_active, now, snapshots, costentries>>

\* get_or_create: the lookup after the IntegrityError. The winner's row is
\* returned with created = False; when there is none the IntegrityError is
\* re-raised and reaches the row handler
GocRefetch(p) ==
    /\ proc[p].pc = "goc_refetch"
    /\ LET pr == proc[p]
           row == pr.row.val
           found == goc_pks(pr.stage, goc_key(row, pr.stage))
       IN IF Cardinality(found) # 1
          THEN /\ proc' = [proc EXCEPT ![p] = row_done(pr, "error")]
               /\ UNCHANGED entities
          ELSE LET pk == CHOOSE i \in found : TRUE
               IN /\ SetTable(pr.stage,
                              goc_updated(goc_table(pr.stage), row, pr.stage, pk, FALSE))
                  /\ proc' = [proc EXCEPT ![p] =
                        goc_returned(pr, pk, {CASE pr.stage = 1 -> "refetch customer" [] pr.stage = 2 -> "refetch subscription"
                                                  [] pr.stage = 3 -> "refetch resource" [] pr.stage = 4 -> "refetch meter"})]
    /\ UNCHANGED <<web, is_active, now, snapshots, costentries>>

\* parse_date and CostEntry.objects.create with the rows that were resolved
InsertEntry(p) ==
    /\ proc[p].pc = "entry"
    /\ LET pr == proc[p]
           row == pr.row.val
           parsed_date == parse_date(row.date)
           cost == decimal_or_zero(row.costInUsd)
           qty == decimal_or_zero(row.quantity)
           price == decimal_or_zero(row.unitPrice)
           billing == decimal_or_zero(row.costInBillingCurrency)
           payg == decimal_or_zero(row.PayGPrice)
       IN IF parsed_date.isNone
          THEN /\ proc' = [proc EXCEPT ![p] = row_done(pr, "baddate")]
               /\ UNCHANGED costentries
          ELSE IF cost.isNone \/ qty.isNone \/ price.isNone \/ billing.isNone \/ payg.isNone
          THEN /\ proc' = [proc EXCEPT ![p] = row_done(pr, "error")]
               /\ UNCHANGED costentries
          ELSE LET e == [ snapshot |-> pr.snap, date |-> parsed_date.val,
                          subscription |-> pr.pks[2], resource |-> pr.pks[3],
                          meter |-> pr.pks[4],
                          cost_in_usd |-> cost.val, quantity |-> qty.val,
                          unit_price |-> price.val,
                          cost_in_billing_currency |-> Some(billing.val),
                          payg_price |-> Some(payg.val) ]
               IN IF costentry_unique_violation(costentries, e)
                  THEN /\ proc' = [proc EXCEPT ![p] = row_done(pr, "duplicate")]
                       /\ UNCHANGED costentries
                  ELSE /\ proc' = [proc EXCEPT ![p] = row_done(pr, "inserted")]
                       /\ costentries' = Append(costentries, e)
    /\ UNCHANGED <<web, is_active, now, snapshots, entities>>

\* the rows of the files two concurrent importers read: the same keys, and a
\* new subscription without the name column
RaceRows ==
    { BaseRow, [BaseRow EXCEPT !.SubscriptionId = Some(SUB2), !.subscriptionName = None] }

\* the scheduled jobs of the two sources run at the same time
NextRace ==
    \/ StartFetch("p1", "s1", FALSE)
    \/ StartFetch("p2", "s2", FALSE)
    \/ \E p \in Procs : CheckRun(p)
    \/ \E p \in Procs : CreateSnapshot(p, 1)
    \/ \E p \in Procs : BeginRow(p, RaceRows)
    \/ \E p \in Procs : GocGet(p)
    \/ \E p \in Procs : GocCreate(p)
    \/ \E p \in Procs : GocRefetch(p)
    \/ \E p \in Procs : InsertEntry(p)
    \/ \E p \in Procs : Finalize(p)

SpecRace == Init /\ [][NextRace]_vars

TypeOK ==
    /\ now \in 0..MaxClock
    /\ Len(snapshots) <= MaxSnapshots
    /\ \A p \in Procs : proc[p].pc \in {"idle", "check", "create", "rows", "goc_get",
                                          "goc_create", "goc_refetch", "entry"}


\* ---------------------------------------------------- resolvers (utils.py)

SnapshotIds == 1..Len(snapshots)
EntryIds == 1..Len(costentries)

\* the CostEntry rows of snapshot i
EntriesOf(i) == {k \in EntryIds : costentries[k].snapshot = i}

\* Sum('cost_in_usd') over a set of CostEntry rows
RECURSIVE SumCost(_)
SumCost(ks) ==
    IF ks = {} THEN 0
    ELSE LET k == CHOOSE x \in ks : TRUE
         IN costentries[k].cost_in_usd + SumCost(ks \ {k})

\* `order_by('created_at').first()`: the oldest row, not the newest
EarliestCreated(ids) ==
    {i \in ids : \A j \in ids : snapshots[i].created_at <= snapshots[j].created_at}

\* the rows `order_by('-created_at').first()` can return: the store does
\* not order rows of equal created_at
LatestCreated(ids) ==
    {i \in ids : \A j \in ids : snapshots[j].created_at <= snapshots[i].created_at}

\* get_latest_snapshot_for_date preferring the snapshot with the most rows of
\* the date to the newest one
get_latest_snapshot_for_date_by_rows(billing_date) ==
    LET rows(i) == Cardinality({k \in EntryIds : /\ costentries[k].snapshot = i
                                                 /\ costentries[k].date = billing_date})
        matching == {i \in SnapshotIds : rows(i) > 0 /\ snapshots[i].status = COMPLETE}
    IN IF matching = {} THEN {None}
       ELSE {Some(i) : i \in {m \in matching : \A j \in matching : rows(j) <= rows(m)}}

\* get_latest_snapshot_for_date: the values it can return (None, or Some(id))
get_latest_snapshot_for_date(billing_date) ==
    IF ~\E k \in EntryIds : costentries[k].date = billing_date
    THEN {None}
    ELSE LET matching == {i \in SnapshotIds :
                             /\ \E k \in EntryIds : /\ costentries[k].snapshot = i
                                                    /\ costentries[k].date = billing_date
                             /\ snapshots[i].status = COMPLETE}
         IN IF matching = {} THEN {None}
            ELSE {Some(i) : i \in LatestCreated(matching)}

\* BillingBlobSource.objects.all(): every source, active or not
every_source == SourceOrder

\* BillingBlobSource.objects.filter(is_active=True), in Meta.ordering
active_sources == SelectSeq(SourceOrder, LAMBDA s : is_active[s])

\* get_latest_snapshots_for_date: the snapshots of one source the loop looks at
snapshots_of_source_for_date(source, target_date) ==
    {i \in SnapshotIds : /\ snapshots[i].source = Some(source)
                         /\ snapshots[i].report_date = Some(target_date)
                         /\ snapshots[i].status = COMPLETE}

\* get_latest_snapshots_for_date keeping every snapshot of the date, not the
\* one of highest id
get_latest_snapshots_for_date_all(target_date) ==
    SelectSeq([i \in SnapshotIds |-> i],
              LAMBDA i : \E s \in Range(active_sources) :
                            i \in snapshots_of_source_for_date(s, target_date))

\* get_latest_snapshots_for_date with `order_by('id').first()`: the lowest id
get_latest_snapshots_for_date_lowest(target_date) ==
    LET having == SelectSeq(active_sources,
                     LAMBDA s : snapshots_of_source_for_date(s, target_date) # {})
    IN [n \in 1..Len(having) |->
          CHOOSE i \in snapshots_of_source_for_date(having[n], target_date) :
              \A j \in snapshots_of_source_for_date(having[n], target_date) : i <= j]

\* get_latest_snapshots_for_date: the list of snapshot ids, in source order
get_latest_snapshots_for_date(target_date) ==
    LET having == SelectSeq(active_sources,
                     LAMBDA s : snapshots_of_source_for_date(s, target_date) # {})
    IN [n \in 1..Len(having) |-> Max(snapshots_of_source_for_date(having[n], target_date))]

\* get_latest_snapshots, no date: the complete snapshots of one source
complete_snapshots_of_source(source) ==
    {i \in SnapshotIds : /\ snapshots[i].source = Some(source)
                         /\ snapshots[i].status = COMPLETE}

\* get_latest_snapshots: the (snapshots, missing) pairs it can return; date
\* is None or Some(date)
get_latest_snapshots(date) ==
    IF ~date.isNone
    THEN LET snaps == get_latest_snapshots_for_date(date.val)
             source_ids == {snapshots[i].source : i \in Range(snaps)}
             missing_sources == SelectSeq(active_sources,
                                    LAMBDA s : Some(s) \notin source_ids)
         IN { [ snapshots |-> snaps,
                missing |-> [n \in 1..Len(missing_sources) |->
                               [name |-> missing_sources[n],
                                reason |-> "no entries for date"]] ] }
    ELSE LET having == SelectSeq(active_sources,
                          LAMBDA s : complete_snapshots_of_source(s) # {})
             lacking == SelectSeq(active_sources,
                          LAMBDA s : complete_snapshots_of_source(s) = {})
             choices == {f \in [1..Len(having) -> SnapshotIds] :
                            \A n \in 1..Len(having) :
                                f[n] \in LatestCreated(complete_snapshots_of_source(having[n]))}
         IN { [ snapshots |-> f,
                missing |-> [n \in 1..Len(lacking) |->
                               [name |-> lacking[n], reason |-> "no snapshot"]] ]
              : f \in choices }

\* latest_snapshot_ids_for_date
latest_snapshot_ids_for_date(date) == get_latest_snapshots_for_date(date)

\* get_cost_entries_for_date: the sets of CostEntry keys it can return
get_cost_entries_for_date(date) ==
    IF ~date.isNone
    THEN LET snapshot_ids == Range(latest_snapshot_ids_for_date(date.val))
         IN { {k \in EntryIds : /\ costentries[k].snapshot \in snapshot_ids
                                /\ costentries[k].date = date.val} }
    ELSE { {k \in EntryIds : costentries[k].snapshot \in Range(res.snapshots)}
           : res \in get_latest_snapshots(None) }

\* for_day without its status filter
for_day_any_status(target_date) ==
    {i \in SnapshotIds : snapshots[i].report_date = Some(target_date)}

\* CostReportSnapshotQuerySet.for_day, on CostReportSnapshot.objects
for_day(target_date) ==
    {i \in SnapshotIds : /\ snapshots[i].report_date = Some(target_date)
                         /\ snapshots[i].status = COMPLETE}


\* ------------------------------------------------------- views (views.py)

\* datetime.date.fromisoformat(s) for YYYY-MM-DD; None stands for ValueError
fromisoformat(s) ==
    LET parts == split(s, "-") IN
    IF Len(parts) # 3 THEN None
    ELSE IF ~( /\ Len(parts[1]) = 4 /\ AllDigits(parts[1])
               /\ Len(parts[2]) = 2 /\ AllDigits(parts[2])
               /\ Len(parts[3]) = 2 /\ AllDigits(parts[3]) )
    THEN None
    ELSE LET y == IntOf(parts[1])
             m == IntOf(parts[2])
             d == IntOf(parts[3])
         IN IF m \in 1..12 /\ y >= 1 /\ d >= 1 /\ d <= DaysInMonth(y, m)
            THEN Some(MkDate(y, m, d))
            ELSE None

\* the `date` parameter as the summary views read it: absent or blank is no
\* date, a string that is no ISO date is an error
request_date(date_str) ==
    IF ~Truthy(date_str) THEN [ok |-> TRUE, date |-> None]
    ELSE IF fromisoformat(date_str.val).isNone THEN [ok |-> FALSE, date |-> None]
    ELSE [ok |-> TRUE, date |-> fromisoformat(date_str.val)]

\* the CostEntry rows of `ks` by the value `key` gives them
GroupsBy(ks, key) == {{k \in ks : key[k] = key[j]} : j \in ks}

\* CostEntryViewSet.get_queryset: the sets of CostEntry keys it can return
CostEntryViewSet_get_queryset(date_str) ==
    IF ~Truthy(date_str) THEN {EntryIds}
    ELSE LET billing_date == fromisoformat(date_str.val) IN
         IF billing_date.isNone THEN {{}}
         ELSE { IF snapshot.isNone THEN {}
                ELSE {k \in EntryIds : /\ costentries[k].snapshot = snapshot.val
                                       /\ costentries[k].date = billing_date.val}
                : snapshot \in get_latest_snapshot_for_date(billing_date.val) }

\* CostEntryViewSet.list: the responses it can give
CostEntryViewSet_list(date_str) ==
    { [view |-> "list", status |-> 200, entries |-> qs]
      : qs \in CostEntryViewSet_get_queryset(date_str) }

\* CostEntryViewSet.aggregate: `mapping`, the allow-list of dimensions
mapping ==
    [ resourceGroupName |-> "resource__resource_group",
      subscriptionName |-> "subscription__name",
      meterCategory |-> "meter__category",
      meterSubCategory |-> "meter__subcategory",
      serviceFamily |-> "meter__service_family",
      resourceLocation |-> "resource__location",
      chargeType |-> "charge_type",
      pricingModel |-> "pricing_model",
      publisherName |-> "publisher_name",
      costCenter |-> "cost_center" ]

\* the value of a field path for CostEntry k; the columns the tables of the
\* model do not hold read as null
field_value(k, path) ==
    CASE path = "resource__resource_group" ->
            resources[costentries[k].resource].resource_group
      [] path = "subscription__name" -> subscriptions[costentries[k].subscription].name
      [] path = "meter__service_family" -> meters[costentries[k].meter].service_family
      [] OTHER -> None

\* queryset.values(*fields).annotate(total_cost=Sum('cost_in_usd'))
aggregate_rows(qs, fields) ==
    { [ key |-> [n \in 1..Len(fields) |-> field_value(CHOOSE k \in g : TRUE, fields[n])],
        total_cost |-> SumCost(g) ]
      : g \in GroupsBy(qs, [k \in qs |-> [n \in 1..Len(fields) |-> field_value(k, fields[n])]]) }

\* CostEntryViewSet.aggregate: the responses it can give
aggregate(date_str, group_by) ==
    IF group_by = <<>>
    THEN {[view |-> "aggregate", status |-> 400, detail |-> "group_by parameter required"]}
    ELSE LET known == SelectSeq(group_by, LAMBDA f : f \in DOMAIN mapping)
             fields == [n \in 1..Len(known) |-> mapping[known[n]]]
         IN IF fields = <<>>
            THEN {[view |-> "aggregate", status |-> 400, detail |-> "invalid group_by fields"]}
            ELSE { [view |-> "aggregate", status |-> 200, fields |-> fields,
                    rows |-> aggregate_rows(qs, fields)]
                   : qs \in CostEntryViewSet_get_queryset(date_str) }

\* SubscriptionSummaryView: the grouped totals of a queryset
summary_data(qs) ==
    { [ subscription_id |-> subscriptions[costentries[CHOOSE k \in g : TRUE].subscription].subscription_id,
        subscription_name |-> subscriptions[costentries[CHOOSE k \in g : TRUE].subscription].name,
        total_usd |-> SumCost(g) ]
      : g \in GroupsBy(qs, [k \in qs |-> costentries[k].subscription]) }

\* BaseSummaryView.get, past the cache: the response bodies the store yields
\* for a date (None or Some(date))
summary_response(date) ==
    { [ date |-> date,
        sources_queried |-> Len(active_sources),
        sources_included |-> Cardinality(summary_data(qs)),
        sources_missing |-> <<>>,
        data |-> summary_data(qs) ]
      : qs \in get_cost_entries_for_date(date) }

\* ResourceGroupTotalsView.get, past the cache: the response bodies the store
\* yields for a resource group and a date
resource_group_totals_response(resource_group, date) ==
    { LET in_group == {k \in qs :
                          resources[costentries[k].resource].resource_group
                              = Some(resource_group)}
          data == { [ resource__resource_id |->
                          resources[costentries[CHOOSE k \in g : TRUE].resource].resource_id,
                      total_usd |-> SumCost(g) ]
                    : g \in GroupsBy(in_group, [k \in in_group |-> costentries[k].resource]) }
      IN [ resource_group |-> resource_group, date |-> date,
           total_resources |-> Cardinality(data), data |-> data ]
      : qs \in get_cost_entries_for_date(date) }

\* cache.get(cache_key) of a key the model holds
cache_get(key) == cache[key]

\* BaseSummaryView.get (SubscriptionSummaryView) for a request with the
\* `date` parameter date_str: a bad date is a 400, a cached body is served as
\* it is, otherwise the body is computed from the store and cached
SummaryRequest(date_str) ==
    /\ LET rd == request_date(date_str)
           cache_key == <<"summary", None, date_str>>
       IN IF ~rd.ok
          THEN /\ resp' = [view |-> "summary", status |-> 400, detail |-> "invalid date"]
               /\ UNCHANGED cache
          ELSE IF ~cache_get(cache_key).isNone
          THEN /\ resp' = [view |-> "summary", status |-> 200,
                           body |-> cache_get(cache_key).val]
               /\ UNCHANGED cache
          ELSE \E response_data \in summary_response(rd.date) :
                  /\ resp' = [view |-> "summary", status |-> 200, body |-> response_data]
                  /\ cache' = [cache EXCEPT ![cache_key] = Some(response_data)]
    /\ UNCHANGED <<is_active, now, store, proc>>

\* ResourceGroupTotalsView.get: resource_group is required, then as above
ResourceGroupTotalsRequest(resource_group, date_str) ==
    /\ LET rd == request_date(date_str)
           cache_key == <<"resource-group-totals", resource_group, date_str>>
       IN IF ~Truthy(resource_group)
          THEN /\ resp' = [view |-> "resource-group-totals", status |-> 400,
                           detail |-> "resource_group parameter required"]
               /\ UNCHANGED cache
          ELSE IF ~rd.ok
          THEN /\ resp' = [view |-> "resource-group-totals", status |-> 400,
                           detail |-> "invalid date"]
               /\ UNCHANGED cache
          ELSE IF ~cache_get(cache_key).isNone
          THEN /\ resp' = [view |-> "resource-group-totals", status |-> 200,
                           body |-> cache_get(cache_key).val]
               /\ UNCHANGED cache
          ELSE \E response_data \in resource_group_totals_response(resource_group.val, rd.date) :
                  /\ resp' = [view |-> "resource-group-totals", status |-> 200,
                              body |-> response_data]
                  /\ cache' = [cache EXCEPT ![cache_key] = Some(response_data)]
    /\ UNCHANGED <<is_active, now, store, proc>>

\* CostEntryViewSet.list
ListRequest(date_str) ==
    /\ resp' \in CostEntryViewSet_list(date_str)
    /\ UNCHANGED <<cache, is_active, now, store, proc>>

\* the group_by parameters of the aggregate requests
GroupByParams ==
    LET names == {"subscriptionName", "serviceFamily", "bogus"}
    IN {<<>>} \cup {<<a>> : a \in names} \cup {<<a, b>> : a, b \in names}

\* CostEntryViewSet.aggregate
AggregateRequest(date_str, group_by) ==
    /\ resp' \in aggregate(date_str, group_by)
    /\ UNCHANGED <<cache, is_active, now, store, proc>>

\* an entry of the cache reaches its timeout of 900 s, or is evicted
CacheExpire(key) ==
    /\ ~cache[key].isNone
    /\ cache' = [cache EXCEPT ![key] = None]
    /\ UNCHANGED <<resp, is_active, now, store, proc>>

\* the ids of `S` in ascending order
RECURSIVE Ascending(_)
Ascending(S) ==
    IF S = {} THEN <<>>
    ELSE LET m == CHOOSE x \in S : \A y \in S : x <= y
         IN <<m>> \o Ascending(S \ {m})

DigitChar(n) ==
    CASE n = 0 -> "0" [] n = 1 -> "1" [] n = 2 -> "2" [] n = 3 -> "3" [] n = 4 -> "4"
      [] n = 5 -> "5" [] n = 6 -> "6" [] n = 7 -> "7" [] n = 8 -> "8" [] n = 9 -> "9"

\* month_date.strftime('%Y-%m')
strftime_ym(d) ==
    LET y == d \div 10000
        m == (d \div 100) % 100
    IN << DigitChar(y \div 1000), DigitChar((y \div 100) % 10), DigitChar((y \div 10) % 10),
          DigitChar(y % 10), "-", DigitChar(m \div 10), DigitChar(m % 10) >>

\* date.isoformat()
isoformat(d) ==
    strftime_ym(d) \o << "-", DigitChar((d % 100) \div 10), DigitChar(d % 10) >>

\* AvailableReportDatesView.get: `year, month = [int(part) for part in
\* month_str.split('-')]` and datetime.date(year, month, 1); None stands for
\* ValueError
parse_month(month_str) ==
    LET parts == split(month_str, "-") IN
    IF Len(parts) # 2 THEN None
    ELSE IF ~(AllDigits(parts[1]) /\ AllDigits(parts[2])) THEN None
    ELSE LET year == IntOf(parts[1])
             month == IntOf(parts[2])
         IN IF year \in 1..9999 /\ month \in 1..12
            THEN Some(MkDate(year, month, 1))
            ELSE None

\* date__range=(start_date, end_date) for the month that starts at month_date
in_month(d, month_date) ==
    LET last_day == DaysInMonth(month_date \div 10000, (month_date \div 100) % 100)
    IN month_date <= d /\ d <= month_date - 1 + last_day

\* the complete snapshots of a source that hold an entry of the month
snapshots_of_source_in_month(source, month_date) ==
    {i \in SnapshotIds : /\ snapshots[i].source = Some(source)
                         /\ snapshots[i].status = COMPLETE
                         /\ \E k \in EntriesOf(i) : in_month(costentries[k].date, month_date)}

\* the view listing the dates of every complete snapshot of the month
available_report_dates_of_all(month_date) ==
    LET snapshot_ids == UNION {snapshots_of_source_in_month(s, month_date)
                                  : s \in Range(active_sources)}
        dates == {costentries[k].date : k \in {j \in EntryIds :
                      /\ costentries[j].snapshot \in snapshot_ids
                      /\ in_month(costentries[j].date, month_date)}}
    IN { [ view |-> "available-report-dates", status |-> 200,
           month |-> strftime_ym(month_date),
           available_dates |-> [n \in 1..Cardinality(dates) |-> isoformat(Ascending(dates)[n])] ] }

\* AvailableReportDatesView.get for a month: the responses it can give
available_report_dates(month_date) ==
    LET having == {s \in Range(active_sources) :
                      snapshots_of_source_in_month(s, month_date) # {}}
        choices == {f \in [having -> SnapshotIds] :
                       \A s \in having :
                           f[s] \in LatestCreated(snapshots_of_source_in_month(s, month_date))}
    IN { LET snapshot_ids == {f[s] : s \in having}
             dates == {costentries[k].date : k \in {j \in EntryIds :
                           /\ costentries[j].snapshot \in snapshot_ids
                           /\ in_month(costentries[j].date, month_date)}}
         IN [ view |-> "available-report-dates", status |-> 200,
              month |-> strftime_ym(month_date),
              available_dates |-> [n \in 1..Cardinality(dates) |-> isoformat(Ascending(dates)[n])] ]
         : f \in choices }

\* AvailableReportDatesView.get
AvailableReportDatesRequest(month_str) ==
    /\ IF Truthy(month_str)
       THEN IF parse_month(month_str.val).isNone
            THEN resp' = [view |-> "available-report-dates", status |-> 400,
                          detail |-> "invalid month"]
            ELSE resp' \in available_report_dates(parse_month(month_str.val).val)
       ELSE \E today \in {MkDate(2024, 1, 15), MkDate(2024, 2, 1)} :  \* datetime.date.today()
               resp' \in available_report_dates(MkDate(today \div 10000, (today \div 100) % 100, 1))
    /\ UNCHANGED <<cache, is_active, now, store, proc>>

\* the list and aggregate operations serve requests while the scheduled job
\* imports the runs of source s1
ApiRows == {BaseRow, [BaseRow EXCEPT !.SubscriptionId = Some(SUB2),
                                     !.subscriptionName = Some(<<"B">>)]}

NextApi ==
    \/ StartFetch("p1", "s1", FALSE)
    \/ CheckRun("p1")
    \/ CreateSnapshot("p1", 1)
    \/ ProcessRow("p1", ApiRows, {"none"})
    \/ StreamError("p1")
    \/ Finalize("p1")
    \/ \E d \in DateParams : ListRequest(d)
    \/ \E d \in DateParams, g \in GroupByParams : AggregateRequest(d, g)

SpecApi == Init /\ [][NextApi]_vars

\* the cached views serve requests while the scheduled job imports the run
\* of source s2
CachedDateParams == {None, Some(S_ISO2), Some(S_0101)}

NextCache ==
    \/ StartFetch("p1", "s2", FALSE)
    \/ CheckRun("p1")
    \/ CreateSnapshot("p1", 1)
    \/ ProcessRow("p1", ApiRows, {"none"})
    \/ StreamError("p1")
    \/ Finalize("p1")
    \/ \E d \in CachedDateParams : SummaryRequest(d)
    \/ \E rg \in ResourceGroupParams, d \in CachedDateParams :
          ResourceGroupTotalsRequest(rg, d)
    \/ \E key \in CacheKeys : CacheExpire(key)

SpecCache == Init /\ [][NextCache]_vars

\* the available-report-dates view serves requests while the scheduled job
\* imports the runs of the sources, whose files hold a row of one of several days
DateRows ==
    { BaseRow, [BaseRow EXCEPT !.date = Some(S_0102)], [BaseRow EXCEPT !.date = Some(<<"0", "2", "/", "0", "1", "/", "2", "0", "2", "4">>)] }

NextDates ==
    \/ Tick
    \/ \E s \in Sources : StartFetch("p1", s, FALSE)
    \/ CheckRun("p1")
    \/ CreateSnapshot("p1", 1)
    \/ ProcessRow("p1", DateRows, {"none"})
    \/ Finalize("p1")
    \/ \E month_str \in MonthParams : AvailableReportDatesRequest(month_str)

SpecDates == Init /\ [][NextDates]_vars

\* ================================================================= claims
OptDates == {None} \cup {Some(d) : d \in QueryDates}

\* C1: in every reachable state, also while an import is running and after an
\* import failed, get_latest_snapshot_for_date, get_latest_snapshots_for_date,
\* get_latest_snapshots (with or without a date) and for_day return only
\* snapshots whose status is complete.
C1_OnlyCompleteResolved ==
    /\ \A d \in QueryDates :
        /\ \A r \in get_latest_snapshot_for_date(d) :
              r.isNone \/ snapshots[r.val].status = COMPLETE
        /\ \A i \in Range(get_latest_snapshots_for_date(d)) :
              snapshots[i].status = COMPLETE
        /\ \A i \in for_day(d) : snapshots[i].status = COMPLETE
    /\ \A d \in OptDates :
        \A res \in get_latest_snapshots(d) :
            \A i \in Range(res.snapshots) : snapshots[i].status = COMPLETE

\* a complete snapshot is resolved for D1 while a newer snapshot of the same
\* source and report date, which already holds an entry of D1, is not complete
C1_Witness ==
    /\ Len(snapshots) = 2
    /\ snapshots[1].status = COMPLETE
    /\ snapshots[2].status \in {IN_PROGRESS, FAILED}
    /\ snapshots[1].source = Some("s1") /\ snapshots[2].source = Some("s1")
    /\ snapshots[1].report_date = Some(D1) /\ snapshots[2].report_date = Some(D1)
    /\ \E k \in EntriesOf(2) : costentries[k].date = D1
    /\ get_latest_snapshots_for_date(D1) = <<1>>
    /\ for_day(D1) = {1}
    /\ get_latest_snapshot_for_date(D1) = {Some(1)}

\* C2: when an active source has several complete snapshots with report date
\* D, get_cost_entries_for_date(D) holds, of that source's snapshots, the
\* entries of the latest one only, so the total of a subscription for D is
\* the total over the latest snapshot of each active source (5, not 7).
LatestOfSource(s, d) == Max(snapshots_of_source_for_date(s, d))

C2_NoDoubleCount ==
    \A d \in QueryDates :
        \A res \in get_cost_entries_for_date(Some(d)) :
            /\ \A s \in Sources :
                (is_active[s] /\ snapshots_of_source_for_date(s, d) # {}) =>
                    /\ \A k \in res :
                          snapshots[costentries[k].snapshot].source = Some(s) =>
                              costentries[k].snapshot = LatestOfSource(s, d)
                    /\ \A k \in EntriesOf(LatestOfSource(s, d)) :
                          costentries[k].date = d => k \in res
            /\ \A sub \in 1..Len(subscriptions) :
                SumCost({k \in res : costentries[k].subscription = sub})
                  = SumCost({k \in EntryIds :
                               /\ costentries[k].subscription = sub
                               /\ costentries[k].date = d
                               /\ \E s \in Sources :
                                    /\ is_active[s]
                                    /\ snapshots_of_source_for_date(s, d) # {}
                                    /\ costentries[k].snapshot = LatestOfSource(s, d)})

\* run1 (cost 2 on D1) and the later run2 (cost 5 on D1) of source s1 are
\* both complete, and the total of the subscription for D1 is 5
C2_Witness ==
    /\ Len(snapshots) = 2
    /\ snapshots_of_source_for_date("s1", D1) = {1, 2}
    /\ is_active["s1"]
    /\ \E a \in EntriesOf(1), b \in EntriesOf(2) :
          /\ EntriesOf(1) = {a} /\ EntriesOf(2) = {b}
          /\ costentries[a].date = D1 /\ costentries[b].date = D1
          /\ costentries[a].subscription = costentries[b].subscription
          /\ costentries[a].cost_in_usd = 2 /\ costentries[b].cost_in_usd = 5
          /\ \A res \in get_cost_entries_for_date(Some(D1)) :
                SumCost({k \in res : costentries[k].subscription
                                        = costentries[a].subscription}) = 5

\* C3: the persisted status of a snapshot only moves in_progress -> complete
\* or in_progress -> failed; no step of the import pipeline changes the
\* status of a complete or failed snapshot, and no snapshot disappears.
C3_StatusMonotone ==
    [][\A i \in 1..Len(snapshots) :
          /\ i <= Len(snapshots')
          /\ snapshots'[i].status # snapshots[i].status =>
                /\ snapshots[i].status = IN_PROGRESS
                /\ snapshots'[i].status \in {COMPLETE, FAILED}]_vars

\* a forced fetch was rejected for a run whose snapshot is complete, next to
\* a failed snapshot: both kept their status
C3_Witness ==
    /\ Len(snapshots) = 2
    /\ {snapshots[1].status, snapshots[2].status} = {COMPLETE, FAILED}
    /\ proc["p1"].pc = "idle" /\ proc["p1"].raised
    /\ proc["p1"].overwrite /\ proc["p1"].existed /\ proc["p1"].snap = 0


\* C4: at most one snapshot exists per run_id, also when two importer
\* processes handle the same run concurrently; an importer whose snapshot
\* creation was rejected has no snapshot and inserted no CostEntry, and no two
\* importers write to the same snapshot.
C4_OneSnapshotPerRun ==
    /\ \A i, j \in SnapshotIds : i # j => snapshots[i].run_id # snapshots[j].run_id
    /\ \A p \in Procs :
        (proc[p].pc = "idle" /\ proc[p].raised /\ proc[p].snap = 0) =>
            (proc[p].count = 0 /\ proc[p].idx = 0)
    /\ \A p, q \in Procs :
        (p # q /\ proc[p].snap # 0) => proc[p].snap # proc[q].snap

\* both importers passed the existence check of the same run; one created
\* the snapshot and inserted an entry, the other was rejected by the store
C4_Witness ==
    /\ proc["p1"].snap # 0
    /\ proc["p1"].count = 1
    /\ proc["p1"].results = <<>>
    /\ proc["p2"].pc = "idle" /\ proc["p2"].raised
    /\ ~proc["p2"].existed /\ ~proc["p2"].overwrite
    /\ proc["p2"].snap = 0 /\ proc["p2"].results = <<>>
    /\ Len(snapshots) = 1
    /\ Cardinality(EntriesOf(1)) = 1

\* the manifest that process_import_run of p is looking at
CurrentManifest(p) == ManifestsOf(proc[p].source.val)[proc[p].mi]

\* C5: process_import_run with overwrite false on a manifest whose run_id
\* already has a snapshot returns status 'skipped' and leaves snapshots, cost
\* entries and reference entities unchanged.
C5_DuplicateRunSkipped ==
    [][\A p \in Procs :
          ( /\ proc[p].pc = "check"
            /\ proc'[p] # proc[p]
            /\ ExistsRun(CurrentManifest(p).run_id)
            /\ ~proc[p].overwrite )
          => /\ proc'[p].results = Append(proc[p].results, "skipped")
             /\ proc'[p].pc # "create"
             /\ UNCHANGED store]_vars

\* fetch_and_import ran again over the two manifests of s1, whose runs were
\* imported before: both are skipped and each run has its one snapshot
C5_Witness ==
    /\ proc["p1"].pc = "idle"
    /\ proc["p1"].results = <<"skipped", "skipped">>
    /\ proc["p1"].returned = Some("success")
    /\ Len(snapshots) = 2
    /\ snapshots[1].run_id = RUN1 /\ snapshots[2].run_id = RUN2
    /\ snapshots[1].status = COMPLETE /\ snapshots[2].status = COMPLETE

\* import_file is about to create the snapshot of a run that process_import_run
\* let through because the overwrite flag is set, although the run has a snapshot
ForcedOnExistingRun(p) ==
    /\ proc[p].pc = "create"
    /\ proc[p].cmd = "fetch"
    /\ proc[p].overwrite
    /\ ExistsRun(proc[p].run_id)

\* C6 (as claimed): with the overwrite flag set, process_import_run on a
\* run_id that already has a snapshot re-imports the run: import_file gets a
\* snapshot to fill, and the run still has exactly one snapshot.
C6_ForcedReimport ==
    [][\A p \in Procs :
          (ForcedOnExistingRun(p) /\ proc'[p] # proc[p])
          => /\ proc'[p].pc = "rows"
             /\ ~proc'[p].raised
             /\ Cardinality({i \in 1..Len(snapshots') :
                    snapshots'[i].run_id = proc[p].run_id.val}) = 1]_vars

\* C6 (what the code does): with the overwrite flag set on a run_id that has
\* a snapshot, the creation of the snapshot is rejected by the unique run_id,
\* the error reaches the caller, no 'imported' is returned and the store is
\* left as it was.
C6_ForcedReimportRejected ==
    [][\A p \in Procs :
          (ForcedOnExistingRun(p) /\ proc'[p] # proc[p])
          => /\ proc'[p].pc = "idle"
             /\ proc'[p].raised
             /\ proc'[p].results = proc[p].results
             /\ UNCHANGED store]_vars

\* process_import_run looks at a manifest, without the overwrite flag, whose
\* run has snapshots and all of them failed
FailedRunAtCheck(p) ==
    /\ proc[p].pc = "check"
    /\ ~proc[p].overwrite
    /\ ExistsRun(CurrentManifest(p).run_id)
    /\ \A i \in SnapshotIds :
          snapshots[i].run_id = CurrentManifest(p).run_id.val
              => snapshots[i].status = FAILED

\* C7 (as claimed): a run whose only snapshot has status failed is not treated
\* as already imported: the next process_import_run without the overwrite
\* flag does not skip it but goes on to import it.
C7_FailedRunRetried ==
    [][\A p \in Procs :
          (FailedRunAtCheck(p) /\ proc'[p] # proc[p])
          => proc'[p].pc = "create"]_vars

\* C7 (what the code does): the existence check does not look at the status,
\* so a run whose only snapshot failed is skipped like any imported run and
\* its snapshot stays failed.
C7_FailedRunSkipped ==
    [][\A p \in Procs :
          (FailedRunAtCheck(p) /\ proc'[p] # proc[p])
          => /\ proc'[p].results = Append(proc[p].results, "skipped")
             /\ proc'[p].pc # "create"
             /\ UNCHANGED store]_vars

\* C8: no two CostEntry rows share (snapshot, date, subscription, resource,
\* meter, quantity, unit_price); a row that repeats the tuple in its run is
\* rejected and skipped without being counted (count stays the number of
\* entries of the snapshot), and the import goes on.
C8_CostEntryUnique ==
    /\ \A i, j \in EntryIds :
          i # j => UniqueKey(costentries[i]) # UniqueKey(costentries[j])
    /\ \A p \in Procs :
          proc[p].snap # 0 => proc[p].count = Cardinality(EntriesOf(proc[p].snap))
    /\ \A p \in Procs :
          proc[p].outcome = "duplicate" => (proc[p].pc = "rows" /\ ~proc[p].raised)

\* the second row of the file repeated the tuple of the first: one entry, one
\* row counted, and the importer is about to finalize
C8_Witness ==
    /\ proc["p1"].pc = "rows"
    /\ proc["p1"].outcome = "duplicate"
    /\ proc["p1"].idx = 2 /\ proc["p1"].nrows = 2
    /\ proc["p1"].count = 1
    /\ Cardinality(EntriesOf(proc["p1"].snap)) = 1

OneEntityPerKey ==
    /\ \A i, j \in 1..Len(customers) :
          i # j => customers[i].tenant_id # customers[j].tenant_id
    /\ \A i, j \in 1..Len(subscriptions) :
          i # j => subscriptions[i].subscription_id # subscriptions[j].subscription_id
    /\ \A i, j \in 1..Len(resources) :
          i # j => resources[i].resource_id # resources[j].resource_id
    /\ \A i, j \in 1..Len(meters) :
          i # j => meters[i].meter_id # meters[j].meter_id

\* the store holds the entities of the row's keys with the row's descriptive
\* fields: the row was processed before and nothing changed since
StoredAsRow(row) ==
    /\ (~row.customerTenantId.isNone) /\ (~row.SubscriptionId.isNone)
    /\ (~row.ResourceId.isNone) /\ (~row.meterId.isNone)
    /\ \E i \in 1..Len(customers) : customers[i].tenant_id = row.customerTenantId.val
    /\ \E i \in 1..Len(subscriptions) :
          /\ subscriptions[i].subscription_id = row.SubscriptionId.val
          /\ subscriptions[i].name = row.subscriptionName
    /\ \E i \in 1..Len(resources) :
          /\ resources[i].resource_id = row.ResourceId.val
          /\ resources[i].resource_name = resource_name_of(row.ResourceId)
          /\ resources[i].resource_group = rg_val_of(row.resourceGroupName)
    /\ \E i \in 1..Len(meters) :
          /\ meters[i].meter_id = row.meterId.val
          /\ meters[i].service_family = row.serviceFamily

\* C9: after every step each natural key has exactly one Customer,
\* Subscription, Resource and Meter, however often its rows were processed,
\* and a repeated row whose descriptive fields equal the stored ones makes no
\* write to those entities.
C9_IdempotentEntities ==
    [][ /\ OneEntityPerKey'
        /\ \A p \in Procs, row \in RowSet :
              (ProcessRowWith(p, row, "none") /\ StoredAsRow(row))
              => (proc'[p].writes = {} /\ UNCHANGED entities) ]_vars

\* a row of the second import whose entities the first import had stored was
\* inserted without any write to the reference entities
C9_Witness ==
    /\ proc["p1"].pc = "rows"
    /\ proc["p1"].snap = 2
    /\ proc["p1"].outcome = "inserted"
    /\ proc["p1"].writes = {}
    /\ Len(customers) = 1 /\ Len(subscriptions) = 1
    /\ Len(resources) = 1 /\ Len(meters) = 1
    /\ Cardinality(EntriesOf(1)) = 2

\* C10: a row whose date does not parse as MM/DD/YYYY, or whose processing
\* raises, is skipped: no CostEntry is created for it and the importer stays
\* in its loop with the next row; an import that returns has read every row
\* of the file and its snapshot is complete.
C10_RowFailuresIsolated ==
    [][\A p \in Procs :
        /\ \A row \in RowSet, fault \in RowFaults :
              ( /\ ProcessRowWith(p, row, fault)
                /\ (parse_date(row.date).isNone \/ proc'[p].outcome \in {"error", "duplicate"}) )
              => /\ costentries' = costentries
                 /\ proc'[p].pc = "rows" /\ ~proc'[p].raised
                 /\ proc'[p].idx = proc[p].idx + 1
                 /\ proc'[p].count = proc[p].count
                 /\ snapshots' = snapshots
        /\ (proc[p].pc = "rows" /\ proc'[p].pc # "rows" /\ ~proc'[p].raised)
              => /\ proc[p].idx = proc[p].nrows
                 /\ snapshots'[proc[p].snap].status = COMPLETE
                 /\ proc'[p].count = Cardinality(EntriesOf(proc[p].snap)) ]_vars

\* an import of two rows returned 1: one row was skipped, the other inserted,
\* and the snapshot is complete
C10_Witness ==
    /\ proc["p1"].pc \in {"check", "idle"} /\ ~proc["p1"].raised
    /\ proc["p1"].results = <<"imported">>
    /\ proc["p1"].idx = 2 /\ proc["p1"].nrows = 2 /\ proc["p1"].count = 1
    /\ snapshots[proc["p1"].snap].status = COMPLETE
    /\ Cardinality(EntriesOf(proc["p1"].snap)) = 1


\* the CostEntry rows of snapshot i after the step
EntriesOfNext(i) == {k \in 1..Len(costentries') : costentries'[k].snapshot = i}

\* C11: when opening or reading the CSV stream fails, import_file saves the
\* snapshot as failed, processes no further rows and re-raises to its caller;
\* the rows inserted before the failure stay attached to the failed snapshot,
\* then and ever after.
C11_StreamFailure ==
    [][ /\ \A p \in Procs :
            ( /\ proc[p].pc = "rows" /\ proc'[p].pc # "rows"
              /\ (proc[p].idx < proc[p].nrows \/ proc'[p].raised) )
            => /\ proc'[p].raised
               /\ proc'[p].pc = "idle"
               /\ proc'[p].results = proc[p].results
               /\ snapshots'[proc[p].snap].status = FAILED
               /\ UNCHANGED <<costentries, entities>>
        /\ \A i \in SnapshotIds :
            snapshots[i].status = FAILED => EntriesOfNext(i) = EntriesOf(i) ]_vars

\* the stream failed after the first of two rows: the error reached the
\* caller and the failed snapshot keeps the entry of the first row
C11_Witness ==
    /\ proc["p1"].pc = "idle" /\ proc["p1"].raised
    /\ proc["p1"].idx = 1 /\ proc["p1"].nrows = 2
    /\ snapshots[proc["p1"].snap].status = FAILED
    /\ Cardinality(EntriesOf(proc["p1"].snap)) = 1

\* C12 (as claimed): a store failure while a row is being processed aborts
\* the run: the remaining rows are not processed, the snapshot is marked
\* failed and the exception reaches the caller.
C12_StoreFailureFatal ==
    [][\A p \in Procs, row \in RowSet :
          ProcessRowWith(p, row, "store")
          => /\ proc'[p].pc = "idle"
             /\ proc'[p].raised
             /\ snapshots'[proc[p].snap].status = FAILED]_vars

\* C12 (what the code does): the row handler catches the store failure like
\* any error of the row; the row is skipped and the import goes on with the
\* next row, the snapshot still in progress.
C12_StoreFailureSkipsRow ==
    [][\A p \in Procs, row \in RowSet :
          ProcessRowWith(p, row, "store")
          => /\ proc'[p].pc = "rows"
             /\ ~proc'[p].raised
             /\ proc'[p].outcome = "error"
             /\ proc'[p].count = proc[p].count
             /\ UNCHANGED store]_vars

\* C13: one import_file call creates exactly one snapshot; when the call
\* returns normally the snapshot is complete and the returned count equals the
\* number of CostEntry rows attached to it: one per inserted row, none for a
\* skipped row.
C13_OneSnapshotExactCount ==
    [][\A p \in Procs :
        /\ (proc[p].pc = "create" /\ proc'[p].pc = "rows")
            => /\ Len(snapshots') = Len(snapshots) + 1
               /\ proc'[p].snap = Len(snapshots')
               /\ proc'[p].count = 0
               /\ EntriesOfNext(proc'[p].snap) = {}
        /\ proc[p].pc = "rows" => Len(snapshots') = Len(snapshots)
        /\ (proc[p].pc = "rows" /\ proc'[p].pc = "rows")
            => IF proc'[p].outcome = "inserted"
               THEN /\ Len(costentries') = Len(costentries) + 1
                    /\ costentries'[Len(costentries')].snapshot = proc[p].snap
                    /\ proc'[p].count = proc[p].count + 1
               ELSE /\ costentries' = costentries
                    /\ proc'[p].count = proc[p].count
        /\ (proc[p].pc = "rows" /\ proc'[p].pc # "rows" /\ ~proc'[p].raised)
            => /\ snapshots'[proc[p].snap].status = COMPLETE
               /\ proc'[p].count = Cardinality(EntriesOfNext(proc[p].snap)) ]_vars

\* a file of two rows with two subscription ids was imported: one snapshot,
\* two subscriptions, two entries and a count of 2
C13_Witness ==
    /\ proc["p1"].pc \in {"check", "idle"} /\ ~proc["p1"].raised
    /\ proc["p1"].results = <<"imported">>
    /\ Len(snapshots) = 1 /\ snapshots[1].status = COMPLETE
    /\ Len(subscriptions) = 2
    /\ proc["p1"].nrows = 2 /\ proc["p1"].count = 2
    /\ Cardinality(EntriesOf(1)) = 2


\* the complete snapshots that hold at least one CostEntry dated d
CompleteWithEntryOn(d) ==
    {i \in SnapshotIds : /\ snapshots[i].status = COMPLETE
                         /\ \E k \in EntriesOf(i) : costentries[k].date = d}

\* C15 (contract A): get_latest_snapshot_for_date(D) returns, among the
\* complete snapshots with at least one CostEntry dated D, of any source or of
\* none, one of latest creation timestamp, whatever the row counts; it returns
\* none exactly when no complete snapshot has an entry dated D.
C15_ContractA ==
    \A d \in QueryDates :
        LET got == get_latest_snapshot_for_date(d) IN
        /\ got # {}
        /\ CompleteWithEntryOn(d) = {} => got = {None}
        /\ CompleteWithEntryOn(d) # {} =>
              \A r \in got :
                  /\ ~r.isNone
                  /\ r.val \in CompleteWithEntryOn(d)
                  /\ \A j \in CompleteWithEntryOn(d) :
                        snapshots[j].created_at <= snapshots[r.val].created_at

\* two complete snapshots hold entries of D1; the older has two of them, the
\* newer one: the newer is returned
C15_Witness ==
    /\ Len(snapshots) = 2
    /\ snapshots[1].status = COMPLETE /\ snapshots[2].status = COMPLETE
    /\ snapshots[1].created_at < snapshots[2].created_at
    /\ Cardinality({k \in EntriesOf(1) : costentries[k].date = D1}) = 2
    /\ Cardinality({k \in EntriesOf(2) : costentries[k].date = D1}) = 1
    /\ get_latest_snapshot_for_date(D1) = {Some(2)}

\* the complete snapshots of source s whose report date is d
CompleteOfSourceOn(s, d) ==
    {i \in SnapshotIds : /\ snapshots[i].source = Some(s)
                         /\ snapshots[i].report_date = Some(d)
                         /\ snapshots[i].status = COMPLETE}

\* the complete snapshots of source s
CompleteOfSource(s) ==
    {i \in SnapshotIds : snapshots[i].source = Some(s) /\ snapshots[i].status = COMPLETE}

ActiveSet == {s \in Sources : is_active[s]}

\* C16 (contract B with a date): get_latest_snapshots(D) returns, for each
\* active source, its complete snapshot of report date D with the highest
\* identifier, and lists every active source without such a snapshot as
\* missing with reason 'no entries for date'.
C16_ContractBWithDate ==
    \A d \in QueryDates : \A res \in get_latest_snapshots(Some(d)) :
        /\ Len(res.snapshots) + Len(res.missing) = Cardinality(ActiveSet)
        /\ \A s \in ActiveSet :
              IF CompleteOfSourceOn(s, d) # {}
              THEN /\ \E n \in 1..Len(res.snapshots) :
                         /\ res.snapshots[n] \in CompleteOfSourceOn(s, d)
                         /\ \A j \in CompleteOfSourceOn(s, d) : j <= res.snapshots[n]
                   /\ \A n \in 1..Len(res.missing) : res.missing[n].name # s
              ELSE /\ \E n \in 1..Len(res.missing) :
                         res.missing[n] = [name |-> s, reason |-> "no entries for date"]
                   /\ \A n \in 1..Len(res.snapshots) :
                         snapshots[res.snapshots[n]].source # Some(s)

\* source s1 has two complete snapshots of D1 and the active source s2 none:
\* the second snapshot is returned and s2 is reported missing
C16_Witness ==
    /\ is_active["s1"] /\ is_active["s2"]
    /\ CompleteOfSourceOn("s1", D1) = {1, 2}
    /\ get_latest_snapshots(Some(D1)) =
          { [ snapshots |-> <<2>>,
              missing |-> <<[name |-> "s2", reason |-> "no entries for date"]>> ] }

\* C17 (contract B without a date): get_latest_snapshots() returns, for each
\* active source, a most recently created complete snapshot of it, whatever
\* its report date, and lists each active source without a complete snapshot
\* as missing with reason 'no snapshot'.
C17_ContractBNoDate ==
    \A res \in get_latest_snapshots(None) :
        /\ Len(res.snapshots) + Len(res.missing) = Cardinality(ActiveSet)
        /\ \A s \in ActiveSet :
              IF CompleteOfSource(s) # {}
              THEN /\ \E n \in 1..Len(res.snapshots) :
                         /\ res.snapshots[n] \in CompleteOfSource(s)
                         /\ \A j \in CompleteOfSource(s) :
                               snapshots[j].created_at
                                   <= snapshots[res.snapshots[n]].created_at
                   /\ \A n \in 1..Len(res.missing) : res.missing[n].name # s
              ELSE /\ \E n \in 1..Len(res.missing) :
                         res.missing[n] = [name |-> s, reason |-> "no snapshot"]
                   /\ \A n \in 1..Len(res.snapshots) :
                         snapshots[res.snapshots[n]].source # Some(s)

\* source s2 has complete snapshots of report dates D1 and D2, the second
\* created later, and the active source s1 has none: the second is returned
\* and s1 is reported missing
C17_Witness ==
    /\ is_active["s1"] /\ is_active["s2"]
    /\ Len(snapshots) = 2
    /\ CompleteOfSource("s2") = {1, 2}
    /\ snapshots[1].report_date # snapshots[2].report_date
    /\ snapshots[1].created_at < snapshots[2].created_at
    /\ get_latest_snapshots(None) =
          { [ snapshots |-> <<2>>,
              missing |-> <<[name |-> "s1", reason |-> "no snapshot"]>> ] }


\* every CostEntry of the set belongs to a complete snapshot
OnlyComplete(ks) == \A k \in ks : snapshots[costentries[k].snapshot].status = COMPLETE

\* C14 (as claimed): the cost-entry list and aggregate operations, with or
\* without a date parameter, and the summary queries never return or sum a
\* CostEntry of an in_progress or failed snapshot, also while an import runs.
C14_CostQueriesCompleteOnly ==
    /\ \A d \in DateParams :
          /\ \A r \in CostEntryViewSet_list(d) : OnlyComplete(r.entries)
          /\ \A qs \in CostEntryViewSet_get_queryset(d) : OnlyComplete(qs)
    /\ \A date \in OptDates : \A qs \in get_cost_entries_for_date(date) : OnlyComplete(qs)

\* C14 (what the code does): the summary queries, and the list and aggregate
\* operations when a date parameter is given, read entries of complete
\* snapshots only; without a date parameter list and aggregate read every
\* CostEntry of the table.
C14_DatedQueriesCompleteOnly ==
    /\ \A d \in DateParams :
          IF Truthy(d)
          THEN \A qs \in CostEntryViewSet_get_queryset(d) : OnlyComplete(qs)
          ELSE CostEntryViewSet_get_queryset(d) = {EntryIds}
    /\ \A date \in OptDates : \A qs \in get_cost_entries_for_date(date) : OnlyComplete(qs)

\* C18 (as claimed): every summary response reports the resolver's outcome:
\* sources_missing is the resolver's missing list, sources_included the number
\* of resolved snapshots, and sources_included plus the length of
\* sources_missing equals sources_queried, the number of active sources.
C18_SummaryReportsResolver ==
    \A date \in OptDates : \A body \in summary_response(date) :
        /\ body.sources_queried = Cardinality(ActiveSet)
        /\ body.sources_included + Len(body.sources_missing) = body.sources_queried
        /\ \A res \in get_latest_snapshots(date) :
              /\ body.sources_included = Len(res.snapshots)
              /\ body.sources_missing = res.missing

\* C18 (what the code does): sources_missing is always empty and
\* sources_included is the number of groups of the aggregation, not of
\* resolved snapshots.
C18_SummaryCountsGroups ==
    \A date \in OptDates : \A body \in summary_response(date) :
        /\ body.sources_queried = Cardinality(ActiveSet)
        /\ body.sources_missing = <<>>
        /\ body.sources_included = Cardinality(body.data)

\* C19 (as claimed): the cache is a pure accelerator: the body of every
\* successful summary or resource-group-totals response is one the store
\* yields at the time of the request, cache hit or not.
C19_CachePureAccelerator ==
    [][ /\ \A d \in CachedDateParams :
              (SummaryRequest(d) /\ resp'.status = 200)
              => resp'.body \in summary_response(request_date(d).date)
        /\ \A rg \in ResourceGroupParams, d \in CachedDateParams :
              (ResourceGroupTotalsRequest(rg, d) /\ resp'.status = 200)
              => resp'.body \in resource_group_totals_response(rg.val, request_date(d).date)
      ]_vars

\* C19 (what the code does): a response computed on a cache miss is one the
\* store yields and is cached as served; a cache hit serves the cached body
\* unchanged, whatever the store holds by then.
C19_CacheMissFresh ==
    [][\A d \in CachedDateParams :
          (SummaryRequest(d) /\ resp'.status = 200)
          => IF cache[<<"summary", None, d>>].isNone
             THEN /\ resp'.body \in summary_response(request_date(d).date)
                  /\ cache'[<<"summary", None, d>>] = Some(resp'.body)
             ELSE /\ resp'.body = cache[<<"summary", None, d>>].val
                  /\ cache' = cache]_vars

\* a name of group_by that is not a key of the allow-list
HasUnknownName(group_by) == \E n \in 1..Len(group_by) : group_by[n] \notin DOMAIN mapping

\* C20 (as claimed): aggregate answers 400 whenever a supplied group_by name
\* is not in the allow-list; it never groups on only part of the requested
\* dimensions.
C20_UnknownGroupByRejected ==
    \A d \in DateParams, g \in GroupByParams :
        HasUnknownName(g) => \A r \in aggregate(d, g) : r.status = 400

\* C20 (what the code does): an unknown name is never used as a field path,
\* and the request is rejected only when no supplied name is in the
\* allow-list; otherwise the unknown names are dropped and the known ones
\* grouped on.
C20_UnknownNamesDropped ==
    \A d \in DateParams, g \in GroupByParams : \A r \in aggregate(d, g) :
        IF \A n \in 1..Len(g) : g[n] \notin DOMAIN mapping
        THEN r.status = 400
        ELSE /\ r.status = 200
             /\ \A n \in 1..Len(r.fields) :
                   \E f \in DOMAIN mapping : f \in Range(g) /\ r.fields[n] = mapping[f]
             /\ Len(r.fields) = Len(SelectSeq(g, LAMBDA f : f \in DOMAIN mapping))

\* a `date` parameter that datetime.date.fromisoformat rejects
BadDate(date_str) == Truthy(date_str) /\ fromisoformat(date_str.val).isNone

\* C21 (as claimed): the cost-entry list and aggregate operations answer an
\* unparseable date string with a client error, as the summary views do, and
\* never with an empty but successful result.
C21_BadDateRejected ==
    [][\A d \in DateParams :
          BadDate(d) =>
            /\ ListRequest(d) => resp'.status = 400
            /\ \A g \in GroupByParams : AggregateRequest(d, g) => resp'.status = 400
      ]_vars

\* C21 (what the code does): the summary views reject an unparseable date,
\* but the cost-entry list answers it with 200 and no entries, and aggregate
\* with 200 and no rows unless group_by itself is rejected.
C21_BadDateEmptyResult ==
    [][\A d \in DateParams :
          BadDate(d) =>
            /\ ~request_date(d).ok
            /\ ListRequest(d) => resp' = [view |-> "list", status |-> 200, entries |-> {}]
            /\ \A g \in GroupByParams :
                  AggregateRequest(d, g) =>
                    IF \E n \in 1..Len(g) : g[n] \in DOMAIN mapping
                    THEN resp'.status = 200 /\ resp'.rows = {}
                    ELSE resp'.status = 400
      ]_vars

C23_ResourceNameLastSegment ==
    \A i \in 1..Len(resources) :
        LET segs == SelectSeq(split(resources[i].resource_id, "/"), LAMBDA g : Len(g) > 0)
        IN resources[i].resource_name =
              IF segs = <<>> THEN None ELSE Some(segs[Len(segs)])

\* C23 (what the code does): the stored name is the last piece of the id once
\* its trailing slashes are stripped; for an id of slashes only that piece is
\* the empty string, which is stored; only an empty id gives null.
C23_ResourceNameLastPiece ==
    \A i \in 1..Len(resources) :
        /\ resources[i].resource_name = resource_name_of(Some(resources[i].resource_id))
        /\ resources[i].resource_id = RID4 => resources[i].resource_name = Some(<<"r", "4">>)
        /\ resources[i].resource_id = RID3 => resources[i].resource_name = Some(RID3)
        /\ resources[i].resource_id = EMPTY => resources[i].resource_name = None
        /\ resources[i].resource_id = SLASH => resources[i].resource_name = Some(EMPTY)

\* C24 (as claimed): the stored resource group of every Resource is null or
\* a non-empty string that is trimmed and lower-case; an input that is empty
\* once trimmed is never stored as an empty string.
C24_ResourceGroupNeverEmpty ==
    \A i \in 1..Len(resources) :
        \/ resources[i].resource_group.isNone
        \/ /\ Len(resources[i].resource_group.val) > 0
           /\ resources[i].resource_group.val = lower(strip(resources[i].resource_group.val))

\* C24 (what the code does): an input that is non-empty once trimmed is
\* stored trimmed and lower-cased; an input that is empty once trimmed never
\* overwrites a stored group, but on a Resource the row creates a blank-only
\* input is stored as the empty string (an empty or absent input as null).
C24_ResourceGroupStored ==
    [][\A row \in FieldRows :
          (ProcessRowWith("p1", row, "none") /\ proc'["p1"].outcome # "error") =>
            \A i \in ResourcePks(resources', row.ResourceId.val) :
                LET rg_raw == row.resourceGroupName IN
                IF Truthy(rg_raw) /\ Len(strip(rg_raw.val)) > 0
                THEN resources'[i].resource_group = Some(lower(strip(rg_raw.val)))
                ELSE IF i \in ResourcePks(resources, row.ResourceId.val)
                THEN resources'[i].resource_group = resources[i].resource_group
                ELSE resources'[i].resource_group =
                        IF Truthy(rg_raw) THEN Some(EMPTY) ELSE None
      ]_vars

\* C25 (as claimed): the entry inserted for a row whose amount fields are
\* blank or absent holds zero for cost in USD, quantity and unit price, and
\* null (not zero) for the billing-currency cost and the pay-as-you-go price.
C25_BlankAmounts ==
    [][\A row \in FieldRows :
          (ProcessRowWith("p1", row, "none") /\ proc'["p1"].outcome = "inserted") =>
            LET e == costentries'[Len(costentries')] IN
            /\ ~Truthy(row.costInUsd) => e.cost_in_usd = 0
            /\ ~Truthy(row.quantity) => e.quantity = 0
            /\ ~Truthy(row.unitPrice) => e.unit_price = 0
            /\ ~Truthy(row.costInBillingCurrency) => e.cost_in_billing_currency = None
            /\ ~Truthy(row.PayGPrice) => e.payg_price = None
      ]_vars

\* C25 (what the code does): every amount field that is blank or absent is
\* stored as zero, the two optional ones included; an amount that is given is
\* stored as given.
C25_BlankAmountsAllZero ==
    [][\A row \in FieldRows :
          (ProcessRowWith("p1", row, "none") /\ proc'["p1"].outcome = "inserted") =>
            LET e == costentries'[Len(costentries')] IN
            /\ e.cost_in_usd = decimal_or_zero(row.costInUsd).val
            /\ e.quantity = decimal_or_zero(row.quantity).val
            /\ e.unit_price = decimal_or_zero(row.unitPrice).val
            /\ ~Truthy(row.costInBillingCurrency) => e.cost_in_billing_currency = Some(0)
            /\ ~Truthy(row.PayGPrice) => e.payg_price = Some(0)
            /\ Truthy(row.costInBillingCurrency) =>
                  e.cost_in_billing_currency = to_decimal(row.costInBillingCurrency.val)
            /\ Truthy(row.PayGPrice) => e.payg_price = to_decimal(row.PayGPrice.val)
      ]_vars

\* C26: available_report_dates answers a malformed month string with a client
\* error, and a month with the ISO dates, ascending and without duplicates,
\* of exactly the entries inside that month of one snapshot per active
\* source: a most recently created complete snapshot of the source that has
\* an entry in the month; dates found only in older snapshots are not listed.
C26_AvailableReportDates ==
    [][\A month_str \in MonthParams :
          (Truthy(month_str) /\ AvailableReportDatesRequest(month_str)) =>
            LET first_day == fromisoformat(month_str.val \o <<"-", "0", "1">>) IN
            IF first_day.isNone
            THEN resp'.status = 400
            ELSE
            LET dates == resp'.available_dates
                InMonth(d) == d \div 100 = first_day.val \div 100
                eligible(s) == {i \in SnapshotIds :
                                   /\ snapshots[i].source = Some(s)
                                   /\ snapshots[i].status = COMPLETE
                                   /\ \E k \in EntriesOf(i) : InMonth(costentries[k].date)}
            IN
            /\ resp'.status = 200
            /\ \A n \in 1..Len(dates) : ~fromisoformat(dates[n]).isNone
            /\ \A n \in 1..(Len(dates) - 1) :
                  fromisoformat(dates[n]).val < fromisoformat(dates[n + 1]).val
            /\ \E f \in [ActiveSet -> SnapshotIds \cup {0}] :
                  /\ \A s \in ActiveSet :
                        IF eligible(s) = {} THEN f[s] = 0
                        ELSE /\ f[s] \in eligible(s)
                             /\ \A j \in eligible(s) :
                                   snapshots[j].created_at <= snapshots[f[s]].created_at
                  /\ {fromisoformat(dates[n]).val : n \in 1..Len(dates)}
                        = {costentries[k].date : k \in {j \in EntryIds :
                              /\ costentries[j].snapshot \in {f[s] : s \in ActiveSet}
                              /\ InMonth(costentries[j].date)}}
      ]_vars

\* the view listed the one date of January of the newest complete snapshot of
\* source s1 while an older complete snapshot of s1 holds another date of
\* January
C26_Witness ==
    /\ resp = [view |-> "available-report-dates", status |-> 200,
               month |-> <<"2", "0", "2", "4", "-", "0", "1">>,
               available_dates |-> <<S_ISO>>]
    /\ \E i, j \in SnapshotIds :
          /\ snapshots[i].source = Some("s1") /\ snapshots[j].source = Some("s1")
          /\ snapshots[i].status = COMPLETE /\ snapshots[j].status = COMPLETE
          /\ snapshots[i].created_at < snapshots[j].created_at
          /\ \E k \in EntriesOf(i) : costentries[k].date = D2
          /\ \E k \in EntriesOf(j) : costentries[k].date = D1

\* C27: CostEntry rows are inserted only while their snapshot is in_progress:
\* a snapshot is created in_progress and without entries, every entry a step
\* adds belongs to a snapshot that exists and is in_progress, stored entries
\* are never changed or removed, and a snapshot that is complete or failed
\* keeps its status and its entry set under every further step.
C27_EntriesOnlyWhileInProgress ==
    [][ /\ Len(costentries') >= Len(costentries)
        /\ Len(snapshots') >= Len(snapshots)
        /\ \A k \in 1..Len(costentries) : costentries'[k] = costentries[k]
        /\ \A k \in (Len(costentries) + 1)..Len(costentries') :
              /\ costentries'[k].snapshot \in SnapshotIds
              /\ snapshots[costentries'[k].snapshot].status = IN_PROGRESS
        /\ \A i \in (Len(snapshots) + 1)..Len(snapshots') :
              /\ snapshots'[i].status = IN_PROGRESS
              /\ EntriesOfNext(i) = {}
        /\ \A i \in SnapshotIds :
              snapshots[i].status \in {COMPLETE, FAILED} =>
                 /\ snapshots'[i] = snapshots[i]
                 /\ EntriesOfNext(i) = EntriesOf(i)
      ]_vars

\* a complete snapshot holds an entry while a later import, whose snapshot is
\* in_progress, has inserted an entry of its own
C27_Witness ==
    \E i, j \in SnapshotIds :
        /\ snapshots[i].status = COMPLETE /\ EntriesOf(i) # {}
        /\ snapshots[j].status = IN_PROGRESS /\ EntriesOf(j) # {}

\* C28 (as claimed): a row that is rejected for its date (unparseable or
\* missing) is skipped without creating any Customer, Subscription, Resource
\* or Meter and without changing any stored descriptive field.
C28_RejectedRowChangesNothing ==
    [][\A row \in FieldRows :
          (ProcessRowWith("p1", row, "none") /\ proc'["p1"].outcome = "baddate") =>
            UNCHANGED entities
      ]_vars

\* C28 (what the code does): entity resolution precedes the parsing of the
\* date: a row rejected for its date inserts no CostEntry and is not
\* counted, but it creates and updates the entities exactly as the same row
\* with a valid date does.
C28_RejectedRowResolvesEntities ==
    [][\A row \in FieldRows :
          (ProcessRowWith("p1", row, "none") /\ proc'["p1"].outcome = "baddate") =>
            LET dated == import_row([row EXCEPT !.date = Some(S_0101)], proc["p1"].snap, "none")
            IN /\ UNCHANGED <<costentries, snapshots>>
               /\ proc'["p1"].count = proc["p1"].count
               /\ customers' = dated.customers
               /\ subscriptions' = dated.subscriptions
               /\ resources' = dated.resources
               /\ meters' = dated.meters
      ]_vars

\* C29: in every store state and for every date argument (none included), a
\* result of get_latest_snapshots holds at most one snapshot per source,
\* every returned snapshot belongs to an active source, and every active
\* source appears exactly once: as the owner of a returned snapshot or in the
\* missing list, never in both and never in neither.
C29_OnePerActiveSource ==
    \A date \in OptDates : \A res \in get_latest_snapshots(date) :
        LET owner(n) == snapshots[res.snapshots[n]].source
            returned == 1..Len(res.snapshots)
            missed == 1..Len(res.missing)
        IN
        /\ \A n \in returned : res.snapshots[n] \in SnapshotIds
        /\ \A n \in returned : (~owner(n).isNone) /\ is_active[owner(n).val]
        /\ \A n, m \in returned : owner(n) = owner(m) => n = m
        /\ \A n, m \in missed : res.missing[n].name = res.missing[m].name => n = m
        /\ \A n \in missed : res.missing[n].name \in ActiveSet
        /\ \A s \in ActiveSet :
              (\E n \in returned : owner(n) = Some(s))
                  <=> ~(\E n \in missed : res.missing[n].name = s)

\* source s2 is inactive and has a complete snapshot for a date for which the
\* active source s1 has one too
C29_Witness ==
    /\ ~is_active["s2"]
    /\ \E i, j \in SnapshotIds :
          /\ snapshots[i].source = Some("s2") /\ snapshots[j].source = Some("s1")
          /\ snapshots[i].status = COMPLETE /\ snapshots[j].status = COMPLETE
          /\ snapshots[i].report_date = Some(D1) /\ snapshots[j].report_date = Some(D1)

\* C30: under every interleaving of two importers that resolve the same
\* natural key, get_or_create leaves exactly one Customer, Subscription,
\* Resource and Meter row per key: the loser of the race inserts nothing,
\* re-fetches the winner's row and goes on with it, and a conflict that
\* persists ends only the row (the handler skips it, the import goes on and
\* the snapshot is not failed).
C30_GetOrCreateRace ==
    [][ /\ OneEntityPerKey'
        /\ \A p \in Procs :
              GocRefetch(p) =>
                LET pr == proc[p]
                    found == goc_pks(pr.stage, goc_key(pr.row.val, pr.stage))
                IN /\ Len(customers') = Len(customers)
                   /\ Len(subscriptions') = Len(subscriptions)
                   /\ Len(resources') = Len(resources)
                   /\ Len(meters') = Len(meters)
                   /\ IF found # {}
                      THEN /\ proc'[p].pc \in {"goc_get", "entry"}
                           /\ proc'[p].pks[pr.stage] \in found
                      ELSE /\ proc'[p].pc = "rows"
                           /\ proc'[p].outcome = "error"
                           /\ proc'[p].idx = pr.idx + 1
                           /\ ~proc'[p].raised
                           /\ snapshots' = snapshots
      ]_vars

\* an importer lost the race for the Customer of its row, re-fetched the
\* winner's row and inserted its CostEntry
C30_Witness ==
    \E p \in Procs :
        /\ "refetch customer" \in proc[p].writes
        /\ proc[p].outcome = "inserted"
        /\ Cardinality(CustomerPks(customers, T1)) = 1

====
